---- MODULE Spec2Model ----
(***************************************************************************)
(* Shared-state synchronisation of the parking dashboard: the relay        *)
(* (server.js) holding the authoritative document, and the client sync     *)
(* logic of the App component (WebSocket handlers, broadcastUpdate, the    *)
(* local mutations, the localStorage fallback, the reconnect timer),       *)
(* composed over one FIFO channel pair per connection.                     *)
(***************************************************************************)
EXTENDS Integers, Sequences, FiniteSets, TLC

(* ------------------------------ bounds ------------------------------- *)
MaxEvents == 1       \* local mutations, foreign sends and transport losses in one run
MaxFeed == 2         \* UPDATEs fed to relay and clients in one mirror run
MaxClock == 1        \* largest reading of the wall clock
MaxJunk == 1         \* malformed messages put on the wire in one run
INITIAL_CARS == 1    \* cars made by generateSpots (62 in the source)
INITIAL_MOTOS == 1   \* motorcycles made by generateSpots (31 in the source)

(* ------------------------------ peers -------------------------------- *)
\* Two browser contexts running App, and one more peer speaking the wire
\* protocol of the relay (the relay accepts any WebSocket peer).
Clients == {"c1", "c2"}
Foreign == "x"
Peers == Clients \cup {Foreign}

(* --------------------------- JavaScript values ----------------------- *)
NULL == "null"

\* LoginScreen 137-140: enum UserRole
ADMIN == "ADMIN"
GUEST == "GUEST"

\* A Date object and its two wire forms: the ISO string JSON.stringify makes
\* of a Date, and a number (Date.now()).
DateOf(t) == <<"Date", t>>
IsoOf(t) == <<"iso", t>>
NumOf(t) == <<"num", t>>

\* `if (v)` on a value of the field named k: arrays and objects are truthy
\* even when empty; null and the empty string are not.
Truthy(k, v) == IF k = "mapImage" THEN v # NULL /\ v # "" ELSE TRUE

\* `if (payload.k)`: an absent key reads as undefined.
Given(payload, k) == k \in DOMAIN payload /\ Truthy(k, payload[k])

StateKeys == {"spots", "spotLocations", "zones", "mapImage"}

(* ------------------------------ types.ts ----------------------------- *)
FREE == "FREE"
OCCUPIED == "OCCUPIED"
CAR == "CAR"
MOTORCYCLE == "MOTORCYCLE"

\* i.toString().padStart(2, '0')
PadStart2(i) == IF i < 10 THEN "0" \o ToString(i) ELSE ToString(i)

\* generateSpots(), run when the clock reads t
generateSpots(t) ==
    [i \in 1..(INITIAL_CARS + INITIAL_MOTOS) |->
        IF i <= INITIAL_CARS
        THEN [id |-> "C-" \o PadStart2(i), type |-> CAR,
              status |-> FREE, lastUpdated |-> DateOf(t)]
        ELSE [id |-> "M-" \o PadStart2(i - INITIAL_CARS), type |-> MOTORCYCLE,
              status |-> FREE, lastUpdated |-> DateOf(t)]]

SpotIds == {generateSpots(0)[i].id : i \in 1..(INITIAL_CARS + INITIAL_MOTOS)}

(* ------------------------------- JSON -------------------------------- *)
\* JSON.stringify of a value found under the key lastUpdated: a Date becomes
\* its ISO string, a string or a number stays.
StringifyDate(d) == IF d[1] = "Date" THEN IsoOf(d[2]) ELSE d

\* new Date(value), the reviver's result for the key lastUpdated
ReviveDate(d) == DateOf(d[2])

StringifySpots(ss) ==
    [i \in 1..Len(ss) |-> [ss[i] EXCEPT !.lastUpdated = StringifyDate(@)]]

ReviveSpots(ss) ==
    [i \in 1..Len(ss) |-> [ss[i] EXCEPT !.lastUpdated = ReviveDate(@)]]

\* JSON.stringify(payload)
Stringify(payload) ==
    [k \in DOMAIN payload |->
        IF k = "spots" THEN StringifySpots(payload[k])
        ELSE IF k = "lastUpdated" THEN StringifyDate(payload[k])
        ELSE payload[k]]

\* JSON.parse(text, (key, value) => key === 'lastUpdated' ? new Date(value) : value)
ParseRevive(payload) ==
    [k \in DOMAIN payload |->
        IF k = "spots" THEN ReviveSpots(payload[k])
        ELSE IF k = "lastUpdated" THEN ReviveDate(payload[k])
        ELSE payload[k]]

Msg(type, payload) == [type |-> type, payload |-> payload]

\* Two texts that are not messages of the protocol: one JSON.parse throws
\* on, and a JSON object with a payload and no type (its type reads as
\* undefined).
Unparsable == [type |-> "SyntaxError", payload |-> <<>>]
NoType == [type |-> "undefined", payload |-> [mapImage |-> "imgJ"]]
Malformed == {Unparsable, NoType}

(* ------------------------------ state -------------------------------- *)
VARIABLES
    appState,       \* relay: the in-memory document
    sws,            \* relay: state of the server-side socket of each peer
    c2s, s2c,       \* transport: messages in flight, peer -> relay and back
    now,            \* the wall clock
    cws,            \* peer: readyState of its WebSocket `ws`
    spots, spotLocations, zones, mapImage,   \* client: React state
    closure,        \* client: the state values the connection effect closed over
    isConnected, socketRef,                  \* client: connection flags
    reconnectTimeout,                        \* client: reconnect timer armed
    simulation,     \* client: the spots a running handleSimulation was called with
    storage,        \* client: localStorage of its browser
    ops, drops,     \* how many mutations / transport losses the run has had
    junk,           \* how many malformed messages the run has had
    mounted,        \* client: the connection effect has not been cleaned up
    userRole,       \* client: the role chosen at the login screen, or null
    last            \* relay: the handler that ran last, and the one before it

relayVars == <<appState, sws>>
netVars == <<c2s, s2c>>
docVars == <<spots, spotLocations, zones, mapImage>>
connVars == <<isConnected, socketRef, reconnectTimeout>>
vars == <<appState, sws, c2s, s2c, now, cws, spots, spotLocations, zones,
          mapImage, closure, isConnected, socketRef, reconnectTimeout,
          storage, ops, drops, last, simulation, junk, mounted, userRole>>

\* App 93: const isGuest = userRole === UserRole.GUEST
isGuest(c) == userRole[c] = GUEST

STORAGE_KEYS ==
    [SPOTS |-> "parking_spots", LOCATIONS |-> "parking_spot_locations",
     ZONES |-> "parking_map_zones", IMAGE |-> "parking_map_image_data"]

\* The record of a relay handler run: what ran, for which peer, the line it
\* logged, and which relay handler had run just before it.
Ran(op, p, line) ==
    [op |-> op, peer |-> p, log |-> line,
     prevOp |-> last.op, prevPeer |-> last.peer, prevLog |-> last.log]

\* The local document of client c, as one value.
Local(c) ==
    [spots |-> spots[c], spotLocations |-> spotLocations[c],
     zones |-> zones[c], mapImage |-> mapImage[c]]

\* localStorage.setItem(key, value)
SetItem(store, key, value) == [k \in DOMAIN store \cup {key} |->
                                  IF k = key THEN value ELSE store[k]]

\* localStorage.removeItem(key)
RemoveItem(store, key) == [k \in DOMAIN store \ {key} |-> store[k]]

\* The effect does not run.
PersistSpots_Skipped(store, newSpots) == store

\* The effect that persists spots after every render that changed them.
PersistSpots(store, newSpots) ==
    SetItem(store, STORAGE_KEYS.SPOTS, StringifySpots(newSpots))

\* App 42-55: loadFromStorage(key, fallback), reviving the dates of spots.
loadFromStorage(store, key, fallback) ==
    IF key \in DOMAIN store
    THEN IF key = STORAGE_KEYS.SPOTS THEN ReviveSpots(store[key]) ELSE store[key]
    ELSE fallback

\* App 72-91: the initial React state of an App mounted on this store when
\* the clock reads t.
Mounted(store, t) ==
    [spots |-> loadFromStorage(store, STORAGE_KEYS.SPOTS, generateSpots(t)),
     spotLocations |-> loadFromStorage(store, STORAGE_KEYS.LOCATIONS, <<>>),
     zones |-> loadFromStorage(store, STORAGE_KEYS.ZONES, <<>>),
     mapImage |-> loadFromStorage(store, STORAGE_KEYS.IMAGE, NULL)]

\* MapView 168-174: the zone the map view makes when a rectangle is drawn at
\* clock reading t.
NewZone(t) ==
    [id |-> "zone-" \o ToString(t), label |-> "New Zone", x |-> 10, y |-> 10,
     width |-> 20, height |-> 20, color |-> "bg-indigo-500", type |-> "default"]

\* One location the map view can give a spot.
Placed == [id \in {"C-01"} |-> [x |-> 50, y |-> 50]]

\* The layout c2 saved in an earlier session: one spot placed, one zone
\* drawn and renamed.
SavedLocations == [id \in {"C-01"} |-> [x |-> 10, y |-> 10]]
SavedZones == <<[NewZone(0) EXCEPT !.id = "zone-before", !.label = "Lot A"]>>

\* What localStorage holds when App mounts: c1 is a browser that never ran
\* App; c2 ran it before, toggled a spot, uploaded an image and saved a layout.
StoredBefore ==
    [c \in Clients |->
        IF c = "c1" THEN <<>>
        ELSE SetItem(SetItem(SetItem(SetItem(<<>>,
                 STORAGE_KEYS.IMAGE, "imgA"),
                 STORAGE_KEYS.LOCATIONS, SavedLocations),
                 STORAGE_KEYS.ZONES, SavedZones),
                 STORAGE_KEYS.SPOTS,
                 StringifySpots([generateSpots(0) EXCEPT ![1].status = OCCUPIED]))]

Init ==
    /\ appState = [spots |-> <<>>, spotLocations |-> <<>>, zones |-> <<>>,
                   mapImage |-> NULL, lastUpdated |-> NumOf(0)]
    /\ sws = [p \in Peers |-> IF p = Foreign THEN "OPEN" ELSE "NONE"]
    /\ c2s = [p \in Peers |-> <<>>]
    /\ s2c = [p \in Peers |-> <<>>]
    /\ now = 0
    /\ cws = [p \in Peers |-> IF p = Foreign THEN "OPEN" ELSE "CONNECTING"]
    /\ spots = [c \in Clients |-> Mounted(StoredBefore[c], 0).spots]
    /\ spotLocations = [c \in Clients |-> Mounted(StoredBefore[c], 0).spotLocations]
    /\ zones = [c \in Clients |-> Mounted(StoredBefore[c], 0).zones]
    /\ mapImage = [c \in Clients |-> Mounted(StoredBefore[c], 0).mapImage]
    /\ closure = [c \in Clients |-> Mounted(StoredBefore[c], 0)]
    /\ isConnected = [c \in Clients |-> FALSE]
    /\ socketRef = [c \in Clients |-> FALSE]
    /\ reconnectTimeout = [c \in Clients |-> FALSE]
    /\ storage = [c \in Clients |->
                    PersistSpots(StoredBefore[c], Mounted(StoredBefore[c], 0).spots)]
    /\ ops = 0
    /\ drops = 0
    /\ last = [op |-> "mount", peer |-> Foreign, log |-> "",
               prevOp |-> "", prevPeer |-> Foreign, prevLog |-> ""]
    /\ simulation = [c \in Clients |-> <<>>]
    /\ junk = 0
    /\ mounted = [c \in Clients |-> TRUE]
    /\ userRole = [c \in Clients |-> ADMIN]

\* The readings Date.now() and new Date() can give next: the clock never
\* goes back.
Clock == {t \in now..(now + 1) : t <= MaxClock}

(* ------------------------------ relay -------------------------------- *)
\* Receiving spots also resets the zones.
MergeUpdate_SpotsResetZones(doc, payload) ==
    [k \in DOMAIN doc |->
        IF k \in StateKeys /\ Given(payload, k) THEN payload[k]
        ELSE IF k = "zones" /\ Given(payload, "spots") THEN <<>>
        ELSE doc[k]]

\* An UPDATE without spots makes an empty document take default spots.
MergeUpdate_DefaultSpots(doc, payload) ==
    [k \in DOMAIN doc |->
        IF k \in StateKeys /\ Given(payload, k) THEN payload[k]
        ELSE IF k = "spots" /\ doc.spots = <<>>
             THEN StringifySpots(generateSpots(0))
        ELSE doc[k]]

\* server.js 43-46: the four guarded assignments of the UPDATE branch.
MergeUpdate(doc, payload) ==
    [k \in DOMAIN doc |->
        IF k \in StateKeys /\ Given(payload, k) THEN payload[k] ELSE doc[k]]

\* Only the first of the four assignments is made.
ApplyUpdate_SpotsOnly(doc, payload, t) ==
    [doc EXCEPT !.spots = IF Given(payload, "spots") THEN payload.spots ELSE @,
                !.lastUpdated = NumOf(t)]

\* server.js 43-48: merge, then stamp lastUpdated with Date.now().
ApplyUpdate(doc, payload, t) ==
    [MergeUpdate(doc, payload) EXCEPT !.lastUpdated = NumOf(t)]

\* The loop stops after the first socket it sends to.
BroadcastTargets_FirstOnly(p) ==
    LET all == {q \in Peers : q # p /\ sws[q] = "OPEN"} IN
    IF all = {} THEN {} ELSE {CHOOSE q \in all : TRUE}

\* The loop does not skip the sender's own socket.
BroadcastTargets_WithSender(p) == {q \in Peers : sws[q] = "OPEN"}

\* The loop does not look at readyState.
BroadcastTargets_AnyState(p) == Peers \ {p}

\* server.js 51-52: the peers the broadcast loop sends to.
BroadcastTargets(p) == {q \in Peers : q # p /\ sws[q] = "OPEN"}

\* server.js 53-56: client.send(JSON.stringify({type: 'UPDATE', payload}))
Broadcast_NewestFirst(p, payload) ==
    [q \in Peers |->
        IF q \in BroadcastTargets(p)
        THEN <<Msg("UPDATE", Stringify(payload))>> \o s2c[q]
        ELSE s2c[q]]

\* server.js 51-58: the broadcast loop.
Broadcast(p, payload) ==
    [q \in Peers |->
        IF q \in BroadcastTargets(p)
        THEN Append(s2c[q], Msg("UPDATE", Stringify(payload)))
        ELSE s2c[q]]

\* The guard forgets to look at the document.
SeedAccepted_Always(doc) == TRUE

\* The guard looks at the image instead of the spots.
SeedAccepted_NoImage(doc) == doc.mapImage = NULL

\* server.js 63: the guard of the SYNC_INITIAL branch.
SeedAccepted(doc) == Len(doc.spots) = 0

\* server.js 66: appState = { ...appState, ...data.payload }
Seed(doc, payload) ==
    [k \in DOMAIN doc \cup DOMAIN payload |->
        IF k \in DOMAIN payload THEN payload[k] ELSE doc[k]]

\* INIT goes to every open socket, not only the new one.
SendInit_ToAll(p) ==
    [q \in Peers |->
        IF q = p \/ sws[q] = "OPEN"
        THEN Append(s2c[q], Msg("INIT", Stringify(appState)))
        ELSE s2c[q]]

\* INIT carries the document the relay started with, not the current one.
SendInit_StartDocument(p) ==
    [s2c EXCEPT ![p] = Append(@, Msg("INIT",
        Stringify([appState EXCEPT !.spots = <<>>, !.spotLocations = <<>>,
                                   !.zones = <<>>, !.mapImage = NULL])))]

\* server.js 30-33: ws.send(JSON.stringify({type: 'INIT', payload: appState}))
SendInit(p) ==
    [s2c EXCEPT ![p] = Append(@, Msg("INIT", Stringify(appState)))]

\* server.js 26-33: wss.on('connection') sends INIT to the new socket.
RelayConnection(p) ==
    /\ cws[p] = "CONNECTING"
    /\ sws[p] = "NONE"
    /\ sws' = [sws EXCEPT ![p] = "OPEN"]
    /\ s2c' = SendInit(p)
    /\ last' = Ran("RelayConnection", p, "Client connected")
    /\ UNCHANGED <<appState, c2s, now, cws, docVars, closure, mounted, userRole, connVars,
                   storage, ops, drops>>
    /\ UNCHANGED <<simulation, junk>>

\* ws.on('message'), type UPDATE
RelayOnUpdate(p) ==
    /\ sws[p] = "OPEN"
    /\ c2s[p] # <<>>
    /\ Head(c2s[p]).type = "UPDATE"
    /\ LET data == Head(c2s[p]) IN
        /\ \E t \in Clock :
            /\ now' = t
            /\ appState' = ApplyUpdate(appState, data.payload, t)
        /\ s2c' = Broadcast(p, data.payload)
        /\ last' = Ran("RelayOnUpdate", p, "Update broadcasted")
    /\ c2s' = [c2s EXCEPT ![p] = Tail(@)]
    /\ UNCHANGED <<sws, cws, docVars, closure, mounted, userRole, connVars, storage, ops, drops>>
    /\ UNCHANGED <<simulation, junk>>

\* ws.on('message'), type SYNC_INITIAL
RelayOnSyncInitial(p) ==
    /\ sws[p] = "OPEN"
    /\ c2s[p] # <<>>
    /\ Head(c2s[p]).type = "SYNC_INITIAL"
    /\ LET data == Head(c2s[p]) IN
        IF SeedAccepted(appState)
        THEN /\ appState' = Seed(appState, data.payload)
             /\ last' = Ran("RelayOnSyncInitial", p,
                            "Receiving initial seed data from client")
        ELSE /\ appState' = appState
             /\ last' = Ran("RelayOnSyncInitial", p, "")
    /\ c2s' = [c2s EXCEPT ![p] = Tail(@)]
    /\ UNCHANGED <<sws, s2c, now, cws, docVars, closure, mounted, userRole, connVars, storage,
                   ops, drops>>
    /\ UNCHANGED <<simulation, junk>>

\* The relay closes the socket of a peer whose message it could not handle.
RelayKeeps_ClosesOnError(p) == [sws EXCEPT ![p] = "CLOSING"]

\* server.js 36-72: no statement of the message handler closes a socket.
RelayKeeps(p) == sws

\* server.js 36-72: ws.on('message') with a text that is not an UPDATE or a
\* SYNC_INITIAL: JSON.parse throws into the catch, or no branch is taken.
RelayOnDiscard(p) ==
    /\ sws[p] = "OPEN"
    /\ c2s[p] # <<>>
    /\ Head(c2s[p]).type \notin {"UPDATE", "SYNC_INITIAL"}
    /\ last' = Ran("RelayOnDiscard", p,
                   IF Head(c2s[p]) = Unparsable THEN "Error processing message" ELSE "")
    /\ sws' = RelayKeeps(p)
    /\ c2s' = [c2s EXCEPT ![p] = Tail(@)]
    /\ UNCHANGED <<appState, s2c, now, cws, docVars, closure, mounted, userRole, connVars, storage,
                   ops, drops, simulation, junk>>

\* ws.on('close') of the relay: the socket leaves wss.clients.
RelayOnClose(p) ==
    /\ sws[p] = "CLOSING"
    /\ sws' = [sws EXCEPT ![p] = "NONE"]
    /\ last' = Ran("RelayOnClose", p, "Client disconnected")
    /\ UNCHANGED <<appState, netVars, now, cws, docVars, closure, mounted, userRole, connVars,
                   storage, ops, drops>>
    /\ UNCHANGED <<simulation, junk>>

(* ----------------------------- transport ----------------------------- *)
\* ws.send(text) on the socket of peer p: what is sent on a transport that is
\* already lost never arrives.
Transmit(p, m) ==
    IF sws[p] = "OPEN" THEN [c2s EXCEPT ![p] = Append(@, m)] ELSE c2s

\* The transport of peer p is lost: both directions drop what is in flight.
NetDrop(p) ==
    /\ ops + drops < MaxEvents
    /\ p \in Clients
    /\ cws[p] = "OPEN"
    /\ sws[p] = "OPEN"
    /\ sws' = [sws EXCEPT ![p] = "CLOSING"]
    /\ c2s' = [c2s EXCEPT ![p] = <<>>]
    /\ s2c' = [s2c EXCEPT ![p] = <<>>]
    /\ drops' = drops + 1
    /\ UNCHANGED <<last, appState, now, cws, docVars, closure, mounted, userRole, connVars, storage, ops>>
    /\ UNCHANGED <<simulation, junk>>

(* ------------------------------ client ------------------------------- *)
\* onopen does not store the socket.
ClientOnOpen_NoSocket(c) ==
    /\ cws[c] = "CONNECTING"
    /\ sws[c] = "OPEN"
    /\ cws' = [cws EXCEPT ![c] = "OPEN"]
    /\ isConnected' = [isConnected EXCEPT ![c] = TRUE]
    /\ UNCHANGED <<last, relayVars, netVars, now, docVars, closure, mounted, userRole, reconnectTimeout,
                   socketRef, storage, ops, drops, simulation, junk>>

\* App 110-114: ws.onopen
ClientOnOpen(c) ==
    /\ cws[c] = "CONNECTING"
    /\ sws[c] = "OPEN"
    /\ cws' = [cws EXCEPT ![c] = "OPEN"]
    /\ isConnected' = [isConnected EXCEPT ![c] = TRUE]
    /\ socketRef' = [socketRef EXCEPT ![c] = TRUE]
    /\ UNCHANGED <<last, relayVars, netVars, now, docVars, closure, mounted, userRole, reconnectTimeout,
                   storage, ops, drops>>
    /\ UNCHANGED <<simulation, junk>>

\* App 125: message.payload.spots && message.payload.spots.length > 0
InitHasData(payload) == Given(payload, "spots") /\ Len(payload.spots) > 0

\* INIT does not replace local spots that are not empty.
AdoptInit_LocalSpotsWin(local, payload) ==
    [k \in DOMAIN local |->
        IF k = "spots"
        THEN IF Len(local.spots) > 0 THEN local.spots ELSE payload.spots
        ELSE IF Given(payload, k) THEN payload[k] ELSE local[k]]

\* App 126-129: setSpots unconditionally, the other three under `if (field)`.
AdoptInit(local, payload) ==
    [k \in DOMAIN local |->
        IF k = "spots" \/ Given(payload, k) THEN payload[k] ELSE local[k]]

\* App 132-140: the SYNC_INITIAL message, built from the variables the
\* handler closed over when the effect ran.
SyncInitialMsg(c) == Msg("SYNC_INITIAL", Stringify(closure[c]))

\* The setters run for every key the payload has, whatever its value.
AdoptUpdate_EveryKey(local, payload) ==
    [k \in DOMAIN local |-> IF k \in DOMAIN payload THEN payload[k] ELSE local[k]]

\* The zones setter appends the received zones to the local ones.
AdoptUpdate_AppendsZones(local, payload) ==
    [k \in DOMAIN local |->
        IF Given(payload, k)
        THEN IF k = "zones" THEN local[k] \o payload[k] ELSE payload[k]
        ELSE local[k]]

\* App 143-146: the four guarded setters of the UPDATE branch.
AdoptUpdate(local, payload) ==
    [k \in DOMAIN local |-> IF Given(payload, k) THEN payload[k] ELSE local[k]]

\* The client's React state becomes doc; the spots effect persists spots.
SetLocal(c, doc) ==
    /\ spots' = [spots EXCEPT ![c] = doc.spots]
    /\ spotLocations' = [spotLocations EXCEPT ![c] = doc.spotLocations]
    /\ zones' = [zones EXCEPT ![c] = doc.zones]
    /\ mapImage' = [mapImage EXCEPT ![c] = doc.mapImage]

\* App 116-141: ws.onmessage, type INIT
ClientOnInit(c) ==
    /\ cws[c] = "OPEN"
    /\ s2c[c] # <<>>
    /\ Head(s2c[c]).type = "INIT"
    /\ LET message == Msg("INIT", ParseRevive(Head(s2c[c]).payload)) IN
        /\ IF InitHasData(message.payload)
           THEN /\ SetLocal(c, AdoptInit(Local(c), message.payload))
                /\ storage' = [storage EXCEPT ![c] =
                                  PersistSpots(@, message.payload.spots)]
                /\ c2s' = c2s
           ELSE /\ c2s' = Transmit(c, SyncInitialMsg(c))
                /\ UNCHANGED <<docVars, storage>>
    /\ s2c' = [s2c EXCEPT ![c] = Tail(@)]
    /\ UNCHANGED <<last, relayVars, now, cws, closure, mounted, userRole, connVars, ops, drops>>
    /\ UNCHANGED <<simulation, junk>>

\* App 142-147: ws.onmessage, type UPDATE
ClientOnUpdate(c) ==
    /\ cws[c] = "OPEN"
    /\ s2c[c] # <<>>
    /\ Head(s2c[c]).type = "UPDATE"
    /\ LET message == Msg("UPDATE", ParseRevive(Head(s2c[c]).payload))
           doc == AdoptUpdate(Local(c), message.payload) IN
        /\ SetLocal(c, doc)
        /\ storage' = [storage EXCEPT ![c] = PersistSpots(@, doc.spots)]
    /\ s2c' = [s2c EXCEPT ![c] = Tail(@)]
    /\ UNCHANGED <<last, relayVars, c2s, now, cws, closure, mounted, userRole, connVars, ops, drops>>
    /\ UNCHANGED <<simulation, junk>>

\* The error event of the failed WebSocket arms a reconnect timer of its own.
ConnectRefused_ArmsTimer(c) ==
    /\ ops + drops < MaxEvents
    /\ cws[c] = "CONNECTING"
    /\ sws[c] = "NONE"
    /\ cws' = [cws EXCEPT ![c] = "FAILED"]
    /\ reconnectTimeout' = [reconnectTimeout EXCEPT ![c] = TRUE]
    /\ drops' = drops + 1
    /\ UNCHANGED <<last, relayVars, netVars, now, docVars, closure, mounted, userRole,
                   isConnected, socketRef, storage, ops, simulation, junk>>

\* The relay cannot be reached: the WebSocket made by connect() fails before
\* it opens.
ConnectRefused(c) ==
    /\ ops + drops < MaxEvents
    /\ cws[c] = "CONNECTING"
    /\ sws[c] = "NONE"
    /\ cws' = [cws EXCEPT ![c] = "FAILED"]
    /\ drops' = drops + 1
    /\ UNCHANGED <<last, relayVars, netVars, now, docVars, closure, mounted, userRole, connVars,
                   storage, ops, simulation, junk>>

\* App 116-151: ws.onmessage with a text that is not an INIT or an UPDATE:
\* JSON.parse throws into the catch, or no branch is taken.
ClientOnDiscard(c) ==
    /\ cws[c] = "OPEN"
    /\ s2c[c] # <<>>
    /\ Head(s2c[c]).type \notin {"INIT", "UPDATE"}
    /\ s2c' = [s2c EXCEPT ![c] = Tail(@)]
    /\ UNCHANGED <<last, relayVars, c2s, now, cws, docVars, closure, mounted, userRole, connVars,
                   storage, ops, drops, simulation, junk>>

\* onclose does not arm the reconnect timer.
ClientOnClose_NoRetry(c) ==
    /\ \/ cws[c] = "OPEN" /\ sws[c] # "OPEN"
       \/ cws[c] = "FAILED"
       \/ cws[c] = "CLOSING"
    /\ cws' = [cws EXCEPT ![c] = "CLOSED"]
    /\ isConnected' = [isConnected EXCEPT ![c] = FALSE]
    /\ socketRef' = [socketRef EXCEPT ![c] = FALSE]
    /\ UNCHANGED <<last, relayVars, netVars, now, docVars, closure, mounted, userRole, storage, ops,
                   drops, reconnectTimeout, simulation, junk>>

\* App 153-159: ws.onclose (after a lost transport, a failed connect, or the
\* ws.close() of the cleanup) arms the reconnect timer.
ClientOnClose(c) ==
    /\ \/ cws[c] = "OPEN" /\ sws[c] # "OPEN"
       \/ cws[c] = "FAILED"
       \/ cws[c] = "CLOSING"
    /\ cws' = [cws EXCEPT ![c] = "CLOSED"]
    /\ isConnected' = [isConnected EXCEPT ![c] = FALSE]
    /\ socketRef' = [socketRef EXCEPT ![c] = FALSE]
    /\ reconnectTimeout' = [reconnectTimeout EXCEPT ![c] = TRUE]
    /\ UNCHANGED <<last, relayVars, netVars, now, docVars, closure, mounted, userRole, storage, ops, drops>>
    /\ UNCHANGED <<simulation, junk>>

\* App 158, 107-108: the timer fires and connect() makes a new WebSocket.
Reconnect(c) ==
    /\ reconnectTimeout[c]
    /\ sws[c] = "NONE"
    /\ reconnectTimeout' = [reconnectTimeout EXCEPT ![c] = FALSE]
    /\ cws' = [cws EXCEPT ![c] = "CONNECTING"]
    /\ UNCHANGED <<last, relayVars, netVars, now, docVars, closure, mounted, userRole, isConnected,
                   socketRef, storage, ops, drops>>
    /\ UNCHANGED <<simulation, junk>>

\* App 168-171: the cleanup of the connection effect. ws.close() on a socket
\* that is connecting or open starts the closing handshake (readyState
\* CLOSING; its close event is dispatched later, what is in flight is not
\* handled any more); on a closed socket it does nothing. clearTimeout
\* cancels the timer that is armed now.
Cleanup(c) ==
    /\ mounted[c]
    /\ mounted' = [mounted EXCEPT ![c] = FALSE]
    /\ LET live == cws[c] \in {"CONNECTING", "OPEN"} IN
        /\ cws' = [cws EXCEPT ![c] = IF live THEN "CLOSING" ELSE @]
        /\ sws' = [sws EXCEPT ![c] = IF live /\ @ = "OPEN" THEN "CLOSING" ELSE @]
        /\ c2s' = [c2s EXCEPT ![c] = IF live THEN <<>> ELSE @]
        /\ s2c' = [s2c EXCEPT ![c] = IF live THEN <<>> ELSE @]
    /\ reconnectTimeout' = [reconnectTimeout EXCEPT ![c] = FALSE]
    /\ UNCHANGED <<last, appState, now, docVars, closure, isConnected, socketRef,
                   storage, ops, drops, simulation, junk, userRole>>

\* The whole local state is sent, not the fields the caller passed.
broadcastUpdate_WholeState(c, payload) ==
    IF socketRef[c] /\ cws[c] = "OPEN"
    THEN Transmit(c, Msg("UPDATE", Stringify(Local(c))))
    ELSE c2s

\* App 175-182: broadcastUpdate(payload); the value is c2s afterwards.
broadcastUpdate(c, payload) ==
    IF socketRef[c] /\ cws[c] = "OPEN"
    THEN Transmit(c, Msg("UPDATE", Stringify(payload)))
    ELSE c2s

\* The spot is marked occupied, whatever it was.
Toggled_Occupies(ss, id, t) ==
    [i \in 1..Len(ss) |->
        IF ss[i].id = id
        THEN [ss[i] EXCEPT !.status = OCCUPIED, !.lastUpdated = DateOf(t)]
        ELSE ss[i]]

\* The toggled spot is taken out of the sequence.
Toggled_Removes(ss, id, t) == SelectSeq(ss, LAMBDA spot : spot.id # id)

\* App 243-252: the spots with the status of spot id flipped.
Toggled(ss, id, t) ==
    [i \in 1..Len(ss) |->
        IF ss[i].id = id
        THEN [ss[i] EXCEPT !.status = IF @ = FREE THEN OCCUPIED ELSE FREE,
                           !.lastUpdated = DateOf(t)]
        ELSE ss[i]]

\* App 240-256: handleToggleSpot(id)
handleToggleSpot(c, id) ==
    /\ ops + drops < MaxEvents
    /\ ~isGuest(c)
    /\ \E t \in Clock : LET newSpots == Toggled(spots[c], id, t) IN
        /\ now' = t
        /\ spots' = [spots EXCEPT ![c] = newSpots]
        /\ c2s' = broadcastUpdate(c, [spots |-> newSpots])
        /\ storage' = [storage EXCEPT ![c] = PersistSpots(@, newSpots)]
    /\ ops' = ops + 1
    /\ UNCHANGED <<last, relayVars, s2c, cws, spotLocations, zones, mapImage,
                   closure, mounted, userRole, connVars, drops>>
    /\ UNCHANGED <<simulation, junk>>

\* The spots a peer sends after its motorcycle spot was taken.
Parked == Toggled(generateSpots(0), "M-01", 0)

\* The images the file reader can deliver as base64 text.
Images == {"imgA"}

\* App 279-295: handleImageUpload(file), from reader.onloadend on
handleImageUpload(c, base64String) ==
    /\ ops + drops < MaxEvents
    /\ ~isGuest(c)
    /\ storage' = [storage EXCEPT ![c] =
                      SetItem(@, STORAGE_KEYS.IMAGE, base64String)]
    /\ mapImage' = [mapImage EXCEPT ![c] = base64String]
    /\ c2s' = broadcastUpdate(c, [mapImage |-> base64String])
    /\ ops' = ops + 1
    /\ UNCHANGED <<last, relayVars, s2c, now, cws, spots, spotLocations, zones,
                   closure, mounted, userRole, connVars, drops>>
    /\ UNCHANGED <<simulation, junk>>

\* App 286-292: handleImageUpload when localStorage.setItem throws (the
\* quota is exceeded): control goes to the catch, which alerts; setMapImage
\* and broadcastUpdate, which follow setItem inside the try, do not run.
handleImageUploadThrows(c, base64String) ==
    /\ ops + drops < MaxEvents
    /\ ~isGuest(c)
    /\ ops' = ops + 1
    /\ UNCHANGED <<last, relayVars, netVars, now, cws, docVars, closure, mounted, userRole, connVars,
                   storage, drops, simulation, junk>>

\* App 311-316: handleAddZone(zone)
handleAddZone(c, zone, t) ==
    /\ ops + drops < MaxEvents
    /\ ~isGuest(c)
    /\ now' = t
    /\ LET newZones == Append(zones[c], zone) IN
        /\ zones' = [zones EXCEPT ![c] = newZones]
        /\ c2s' = broadcastUpdate(c, [zones |-> newZones])
    /\ ops' = ops + 1
    /\ UNCHANGED <<last, relayVars, s2c, cws, spots, spotLocations, mapImage,
                   closure, mounted, userRole, connVars, storage, drops>>
    /\ UNCHANGED <<simulation, junk>>

\* The null location of handleUpdateLocation(id, null); coordinates are
\* percentages, so no real location has these.
NoLocation == [x |-> -1, y |-> -1]

\* App 299-305: the copy of the locations with id set or deleted.
WithLocation(locs, id, location) ==
    IF location = NoLocation
    THEN [k \in DOMAIN locs \ {id} |-> locs[k]]
    ELSE [k \in DOMAIN locs \cup {id} |-> IF k = id THEN location ELSE locs[k]]

\* App 297-309: handleUpdateLocation(id, location)
handleUpdateLocation(c, id, location) ==
    /\ ops + drops < MaxEvents
    /\ ~isGuest(c)
    /\ LET newLocations == WithLocation(spotLocations[c], id, location) IN
        /\ spotLocations' = [spotLocations EXCEPT ![c] = newLocations]
        /\ c2s' = broadcastUpdate(c, [spotLocations |-> newLocations])
    /\ ops' = ops + 1
    /\ UNCHANGED <<last, relayVars, s2c, now, cws, spots, zones, mapImage,
                   closure, mounted, userRole, connVars, storage, drops, simulation, junk>>

\* MapView 522, 536: the changes the zone editor makes to a zone.
ZoneUpdates == {[label |-> "Lot B"]}

\* { ...z, ...updates }
Spread(z, updates) ==
    [k \in DOMAIN z \cup DOMAIN updates |->
        IF k \in DOMAIN updates THEN updates[k] ELSE z[k]]

\* App 318-323: handleUpdateZone(id, updates)
handleUpdateZone(c, id, updates) ==
    /\ ops + drops < MaxEvents
    /\ ~isGuest(c)
    /\ \E i \in 1..Len(zones[c]) : zones[c][i].id = id
    /\ LET newZones == [i \in 1..Len(zones[c]) |->
                           IF zones[c][i].id = id THEN Spread(zones[c][i], updates)
                           ELSE zones[c][i]] IN
        /\ zones' = [zones EXCEPT ![c] = newZones]
        /\ c2s' = broadcastUpdate(c, [zones |-> newZones])
    /\ ops' = ops + 1
    /\ UNCHANGED <<last, relayVars, s2c, now, cws, spots, spotLocations, mapImage,
                   closure, mounted, userRole, connVars, storage, drops, simulation, junk>>

\* App 318-330: the ids the zone editor offers, those of the zones shown.
ZoneIds(c) == {zones[c][i].id : i \in 1..Len(zones[c])}

\* App 325-330: handleDeleteZone(id)
handleDeleteZone(c, id) ==
    /\ ops + drops < MaxEvents
    /\ ~isGuest(c)
    /\ LET newZones == SelectSeq(zones[c], LAMBDA z : z.id # id) IN
        /\ zones' = [zones EXCEPT ![c] = newZones]
        /\ c2s' = broadcastUpdate(c, [zones |-> newZones])
    /\ ops' = ops + 1
    /\ UNCHANGED <<last, relayVars, s2c, now, cws, spots, spotLocations, mapImage,
                   closure, mounted, userRole, connVars, storage, drops, simulation, junk>>

\* App 334-347: handleQuickSaveLayout()
handleQuickSaveLayout(c) ==
    /\ ops + drops < MaxEvents
    /\ ~isGuest(c)
    /\ storage' = [storage EXCEPT ![c] =
                      SetItem(SetItem(@, STORAGE_KEYS.LOCATIONS, spotLocations[c]),
                              STORAGE_KEYS.ZONES, zones[c])]
    /\ c2s' = broadcastUpdate(c, [spotLocations |-> spotLocations[c],
                                  zones |-> zones[c]])
    /\ ops' = ops + 1
    /\ UNCHANGED <<last, relayVars, s2c, now, cws, docVars, closure, mounted, userRole, connVars,
                   drops, simulation, junk>>

\* App 336-346: handleQuickSaveLayout when a localStorage.setItem throws,
\* the first (nothing written) or the second (locations written): control
\* goes to the catch, which logs and returns false; broadcastUpdate, which
\* follows the writes inside the try, does not run.
handleQuickSaveLayoutThrows(c, written) ==
    /\ ops + drops < MaxEvents
    /\ ~isGuest(c)
    /\ storage' = [storage EXCEPT ![c] =
                      IF written = 1
                      THEN SetItem(@, STORAGE_KEYS.LOCATIONS, spotLocations[c])
                      ELSE @]
    /\ ops' = ops + 1
    /\ UNCHANGED <<last, relayVars, netVars, now, cws, docVars, closure, mounted, userRole, connVars,
                   drops, simulation, junk>>

\* The layouts the library holds: one with a spot placed and no zone, one
\* with a zone and no spot placed.
Snapshots ==
    { [spotLocations |-> Placed, zones |-> <<>>],
      [spotLocations |-> <<>>, zones |-> <<NewZone(0)>>] }

\* App 350-359: handleLoadLayoutSnapshot(locations, loadedZones)
handleLoadLayoutSnapshot(c, locations, loadedZones) ==
    /\ ops + drops < MaxEvents
    /\ spotLocations' = [spotLocations EXCEPT ![c] = locations]
    /\ zones' = [zones EXCEPT ![c] = loadedZones]
    /\ storage' = [storage EXCEPT ![c] =
                      SetItem(SetItem(@, STORAGE_KEYS.LOCATIONS, locations),
                              STORAGE_KEYS.ZONES, loadedZones)]
    /\ c2s' = broadcastUpdate(c, [spotLocations |-> locations, zones |-> loadedZones])
    /\ ops' = ops + 1
    /\ UNCHANGED <<last, relayVars, s2c, now, cws, spots, mapImage, closure, mounted,
                   userRole, connVars, drops, simulation, junk>>

\* App 241, 280, 298, 312, 319, 326, 335: `if (isGuest) return`, the first
\* statement of the toggle, upload, location, zone and quick-save handlers.
handlerReturnsForGuest(c) ==
    /\ ops + drops < MaxEvents
    /\ isGuest(c)
    /\ ops' = ops + 1
    /\ UNCHANGED <<last, relayVars, netVars, now, cws, docVars, closure, mounted, userRole,
                   connVars, storage, drops, simulation, junk>>

\* App 365-367: without a role App renders the login screen and nothing else.
LoggedIn(c) == userRole[c] # NULL

\* The simulation modal is rendered for guests too.
SimModalShown_ToGuests(c) == TRUE

\* App 391-399, 560: the Simulate button and the modal whose buttons call
\* handleSimulation are rendered only when !isGuest.
SimModalShown(c) == ~isGuest(c)

\* The layout library is rendered for guests too.
LayoutsShown_ToGuests(c) == TRUE

\* App 425-432, 550-556: the Layouts tab and the LayoutManager, whose load
\* button calls handleLoadLayoutSnapshot, are rendered only when !isGuest.
LayoutsShown(c) == ~isGuest(c)

\* LoginScreen 29, 42; App 366: onLogin(role) is setUserRole(role).
Login(c, role) ==
    /\ ~LoggedIn(c)
    /\ userRole' = [userRole EXCEPT ![c] = role]
    /\ UNCHANGED <<last, relayVars, netVars, now, cws, docVars, closure, mounted,
                   connVars, storage, ops, drops, simulation, junk>>

\* App 444: the logout button calls setUserRole(null).
Logout(c) ==
    /\ LoggedIn(c)
    /\ userRole' = [userRole EXCEPT ![c] = NULL]
    /\ UNCHANGED <<last, relayVars, netVars, now, cws, docVars, closure, mounted,
                   connVars, storage, ops, drops, simulation, junk>>

\* App 265-268: handleSimulation(scenario) calls simulateTrafficScenario with
\* the spots of the render it was made in, and awaits.
handleSimulation(c) ==
    /\ ops + drops < MaxEvents
    /\ simulation[c] = <<>>
    /\ simulation' = [simulation EXCEPT ![c] = <<spots[c]>>]
    /\ ops' = ops + 1
    /\ UNCHANGED <<last, relayVars, netVars, now, cws, docVars, closure, mounted, userRole, connVars,
                   storage, drops, junk>>

\* What the service can come back with: a failure, or a status map naming
\* these spot ids as OCCUPIED.
SimulationResults == {"error", "none", "all"}

\* geminiService 76-85: the spots simulateTrafficScenario resolves to.
simulateTrafficScenario(currentSpots, result, t) ==
    IF result = "error" THEN currentSpots
    ELSE [i \in 1..Len(currentSpots) |->
            [currentSpots[i] EXCEPT
                !.status = IF result = "all" THEN OCCUPIED ELSE FREE,
                !.lastUpdated = DateOf(t)]]

\* App 268-271: the await resumes; setSpots(newSpots), broadcastUpdate.
SimulationDone(c, result) ==
    /\ simulation[c] # <<>>
    /\ \E t \in Clock :
        LET newSpots == simulateTrafficScenario(simulation[c][1], result, t) IN
        /\ now' = t
        /\ spots' = [spots EXCEPT ![c] = newSpots]
        /\ c2s' = broadcastUpdate(c, [spots |-> newSpots])
        /\ storage' = [storage EXCEPT ![c] = PersistSpots(@, newSpots)]
    /\ simulation' = [simulation EXCEPT ![c] = <<>>]
    /\ UNCHANGED <<last, relayVars, s2c, cws, spotLocations, zones, mapImage,
                   closure, mounted, userRole, connVars, ops, drops, junk>>

(* ------------------------- persistence fallback ---------------------- *)
\* The local field each storage key holds.
KeyField ==
    [parking_spots |-> "spots", parking_spot_locations |-> "spotLocations",
     parking_map_zones |-> "zones", parking_map_image_data |-> "mapImage"]

\* What another tab of the same browser writes under a key.
WrittenValue(key) ==
    IF key = STORAGE_KEYS.SPOTS THEN StringifySpots(Parked)
    ELSE IF key = STORAGE_KEYS.LOCATIONS THEN Placed
    ELSE IF key = STORAGE_KEYS.ZONES THEN <<NewZone(0)>>
    ELSE "imgB"

\* The storage events a tab can get: a key written, or a key removed
\* (newValue null).
StorageEvents ==
    [key : {STORAGE_KEYS.SPOTS, STORAGE_KEYS.LOCATIONS, STORAGE_KEYS.ZONES,
            STORAGE_KEYS.IMAGE},
     removed : BOOLEAN]

\* App 191-200: JSON.parse(e.newValue, reviver) for spots, JSON.parse for
\* locations and zones, the text itself for the image.
ParseStored(key, newValue) ==
    IF key = STORAGE_KEYS.SPOTS THEN ReviveSpots(newValue) ELSE newValue

\* Events are ignored when isConnected is false.
FallbackIgnored_WhenOffline(c) == ~isConnected[c]

\* App 188: if (isConnected) return
FallbackIgnored(c) == isConnected[c]

\* Every event changes the image.
FallbackAdopts_AlsoImage(local, e) ==
    IF e.removed THEN local
    ELSE [[local EXCEPT ![KeyField[e.key]] = ParseStored(e.key, WrittenValue(e.key))]
             EXCEPT !.mapImage = "imgB"]

\* App 190-201: the four `e.key === K && e.newValue` branches.
FallbackAdopts(local, e) ==
    IF e.removed THEN local
    ELSE [local EXCEPT ![KeyField[e.key]] = ParseStored(e.key, WrittenValue(e.key))]

\* App 186-206: handleStorageChange(e), run when another tab of the browser
\* has written or removed e.key.
handleStorageChange(c, e) ==
    /\ ops + drops < MaxEvents
    /\ LET written == IF e.removed THEN RemoveItem(storage[c], e.key)
                      ELSE SetItem(storage[c], e.key, WrittenValue(e.key))
           doc == IF FallbackIgnored(c) THEN Local(c) ELSE FallbackAdopts(Local(c), e) IN
        /\ SetLocal(c, doc)
        /\ storage' = [storage EXCEPT ![c] =
                          IF doc.spots # spots[c] THEN PersistSpots(written, doc.spots)
                          ELSE written]
    /\ ops' = ops + 1
    /\ UNCHANGED <<last, relayVars, netVars, now, cws, closure, mounted, userRole, connVars, drops,
                   simulation, junk>>

(* --------------------------- foreign peer ---------------------------- *)
\* What a peer that is not App may send: well-typed AppStatePayload values,
\* among them the ones App never makes (a null image, no spots, few fields).
ForeignMessages ==
    { Msg("UPDATE", [mapImage |-> NULL]),
      Msg("UPDATE", [spots |-> <<>>]),
      Msg("UPDATE", [spotLocations |-> <<>>, mapImage |-> "imgB"]),
      Msg("SYNC_INITIAL", [spots |-> <<>>, spotLocations |-> <<>>,
                           zones |-> <<>>, mapImage |-> "imgB"]) }

ForeignSend(m) ==
    /\ ops + drops < MaxEvents
    /\ m \in ForeignMessages
    /\ cws[Foreign] = "OPEN"
    /\ c2s' = Transmit(Foreign, m)
    /\ ops' = ops + 1
    /\ UNCHANGED <<last, relayVars, s2c, now, cws, docVars, closure, mounted, userRole, connVars,
                   storage, drops>>
    /\ UNCHANGED <<simulation, junk>>

\* The foreign peer sends a text that is not a message of the protocol.
ForeignJunk(m) ==
    /\ junk < MaxJunk
    /\ m \in Malformed
    /\ cws[Foreign] = "OPEN"
    /\ c2s' = Transmit(Foreign, m)
    /\ junk' = junk + 1
    /\ UNCHANGED <<last, relayVars, s2c, now, cws, docVars, closure, mounted, userRole, connVars,
                   storage, ops, drops, simulation>>

\* Something between the relay and client c puts such a text on the
\* connection towards the client.
JunkToClient(c, m) ==
    /\ junk < MaxJunk
    /\ m \in Malformed
    /\ sws[c] = "OPEN"
    /\ s2c' = [s2c EXCEPT ![c] = Append(@, m)]
    /\ junk' = junk + 1
    /\ UNCHANGED <<last, relayVars, c2s, now, cws, docVars, closure, mounted, userRole, connVars,
                   storage, ops, drops, simulation>>

(* --------------------------- specification --------------------------- *)
Next ==
    \/ \E p \in Peers : RelayConnection(p)
    \/ \E p \in Peers : RelayOnUpdate(p)
    \/ \E p \in Peers : RelayOnSyncInitial(p)
    \/ \E p \in Peers : RelayOnClose(p)
    \/ \E p \in Peers : NetDrop(p)
    \/ \E c \in Clients : ClientOnOpen(c)
    \/ \E c \in Clients : ClientOnInit(c)
    \/ \E c \in Clients : ClientOnUpdate(c)
    \/ \E c \in Clients : ClientOnClose(c)
    \/ \E c \in Clients : Reconnect(c)
    \/ \E c \in Clients : \E id \in SpotIds : handleToggleSpot(c, id)
    \/ \E c \in Clients : \E img \in Images : handleImageUpload(c, img)
    \/ \E c \in Clients : \E t \in Clock : handleAddZone(c, NewZone(t), t)
    \/ \E m \in ForeignMessages : ForeignSend(m)

Spec == Init /\ [][Next]_vars

(* ----------------------- one-client specification -------------------- *)
\* One browser runs App (the one with a stored session); the user does
\* everything the dashboard offers, other tabs of the browser write to its
\* localStorage, the transport is lost, the relay refuses connections and
\* the foreign peer sends its messages.
Solo == {"c2"}

\* The locations the map view gives a spot, and the null that removes one.
Locations == {[x |-> 50, y |-> 50], NoLocation}

InitSolo ==
    /\ appState = [spots |-> <<>>, spotLocations |-> <<>>, zones |-> <<>>,
                   mapImage |-> NULL, lastUpdated |-> NumOf(0)]
    /\ sws = [p \in Peers |-> IF p = Foreign THEN "OPEN" ELSE "NONE"]
    /\ c2s = [p \in Peers |-> <<>>]
    /\ s2c = [p \in Peers |-> <<>>]
    /\ now = 0
    /\ cws = [p \in Peers |-> IF p = Foreign THEN "OPEN"
                              ELSE IF p \in Solo THEN "CONNECTING" ELSE "CLOSED"]
    /\ spots = [c \in Clients |-> Mounted(StoredBefore[c], 0).spots]
    /\ spotLocations = [c \in Clients |-> Mounted(StoredBefore[c], 0).spotLocations]
    /\ zones = [c \in Clients |-> Mounted(StoredBefore[c], 0).zones]
    /\ mapImage = [c \in Clients |-> Mounted(StoredBefore[c], 0).mapImage]
    /\ closure = [c \in Clients |-> Mounted(StoredBefore[c], 0)]
    /\ isConnected = [c \in Clients |-> FALSE]
    /\ socketRef = [c \in Clients |-> FALSE]
    /\ reconnectTimeout = [c \in Clients |-> FALSE]
    /\ storage = [c \in Clients |->
                    PersistSpots(StoredBefore[c], Mounted(StoredBefore[c], 0).spots)]
    /\ ops = 0
    /\ drops = 0
    /\ last = [op |-> "mount", peer |-> Foreign, log |-> "",
               prevOp |-> "", prevPeer |-> Foreign, prevLog |-> ""]
    /\ simulation = [c \in Clients |-> <<>>]
    /\ junk = 0
    /\ mounted = [c \in Clients |-> TRUE]
    /\ userRole = [c \in Clients |-> ADMIN]

NextSolo ==
    \/ \E p \in Peers : RelayConnection(p)
    \/ \E p \in Peers : RelayOnUpdate(p)
    \/ \E p \in Peers : RelayOnSyncInitial(p)
    \/ \E p \in Peers : RelayOnClose(p)
    \/ \E p \in Peers : NetDrop(p)
    \/ \E c \in Solo : ConnectRefused(c)
    \/ \E c \in Solo : ClientOnOpen(c)
    \/ \E c \in Solo : ClientOnInit(c)
    \/ \E c \in Solo : ClientOnUpdate(c)
    \/ \E c \in Solo : ClientOnClose(c)
    \/ \E c \in Solo : Reconnect(c)
    \/ \E c \in Solo : \E id \in SpotIds : handleToggleSpot(c, id)
    \/ \E c \in Solo : \E img \in Images : handleImageUpload(c, img)
    \/ \E c \in Solo : \E t \in Clock : handleAddZone(c, NewZone(t), t)
    \/ \E c \in Solo : \E id \in SpotIds : \E location \in Locations :
          handleUpdateLocation(c, id, location)
    \/ \E c \in Solo : \E id \in ZoneIds(c) : \E updates \in ZoneUpdates :
          handleUpdateZone(c, id, updates)
    \/ \E c \in Solo : \E id \in ZoneIds(c) : handleDeleteZone(c, id)
    \/ \E c \in Solo : handleQuickSaveLayout(c)
    \/ \E c \in Solo : \E img \in Images : handleImageUploadThrows(c, img)
    \/ \E c \in Solo : \E written \in {0, 1} : handleQuickSaveLayoutThrows(c, written)
    \/ \E c \in Solo : handleSimulation(c)
    \/ \E c \in Solo : \E result \in SimulationResults : SimulationDone(c, result)
    \/ \E c \in Solo : \E e \in StorageEvents : handleStorageChange(c, e)
    \/ \E m \in ForeignMessages : ForeignSend(m)

SpecSolo == InitSolo /\ [][NextSolo]_vars

\* The event loops run: a close event is dispatched, an armed timer fires,
\* the relay accepts a connection it is offered and notices a closed one,
\* and an accepted connection opens at the client.
FairConnection ==
    /\ \A c \in Solo : WF_vars(ClientOnClose(c))
    /\ \A c \in Solo : WF_vars(Reconnect(c))
    /\ \A c \in Solo : WF_vars(ClientOnOpen(c))
    /\ \A p \in Peers : WF_vars(RelayConnection(p))
    /\ \A p \in Peers : WF_vars(RelayOnClose(p))

SpecSoloLive == SpecSolo /\ FairConnection

(* -------------------- malformed-message specification ---------------- *)
\* The one-client system with texts on the wire that are not messages of
\* the protocol, sent to the relay by the foreign peer and put on the
\* connection towards the client; the foreign peer also sends real messages.
NextJunk ==
    \/ \E p \in Peers : RelayConnection(p)
    \/ \E p \in Peers : RelayOnUpdate(p)
    \/ \E p \in Peers : RelayOnSyncInitial(p)
    \/ \E p \in Peers : RelayOnDiscard(p)
    \/ \E c \in Solo : ClientOnOpen(c)
    \/ \E c \in Solo : ClientOnInit(c)
    \/ \E c \in Solo : ClientOnUpdate(c)
    \/ \E c \in Solo : ClientOnDiscard(c)
    \/ \E m \in ForeignMessages : ForeignSend(m)
    \/ \E m \in Malformed : ForeignJunk(m)
    \/ \E c \in Solo : \E m \in Malformed : JunkToClient(c, m)

SpecJunk == InitSolo /\ [][NextJunk]_vars

(* ------------------------- mirror specification --------------------- *)
\* Relay and clients start with equal documents and are fed the same UPDATEs:
\* the foreign peer sends them, the relay applies and broadcasts them, the
\* clients apply them. No client mutates its state and no transport is lost.

\* The documents a run starts from: the one c2 seeded the relay with and c1
\* adopted from INIT, and that one after c1 toggled its first spot back.
MirrorDocs ==
    { [Mounted(StoredBefore["c2"], 0) EXCEPT !.spots = ss] :
        ss \in {Mounted(StoredBefore["c2"], 0).spots,
                Toggled(Mounted(StoredBefore["c2"], 0).spots, "C-01", 0)} }

\* The UPDATE payloads fed: every choice of at most two fields, each with a
\* value of its type, the empty and null ones among them.
Absent == "absent"
FeedChoices ==
    [spots |-> {Absent, "empty", "parked"}, spotLocations |-> {Absent, "placed"},
     zones |-> {Absent, "one"}, mapImage |-> {Absent, NULL, "imgB"}]
FeedValue(k, choice) ==
    IF k = "spots"
    THEN IF choice = "empty" THEN <<>> ELSE StringifySpots(Parked)
    ELSE IF k = "spotLocations" THEN Placed
    ELSE IF k = "zones" THEN <<NewZone(0)>>
    ELSE choice
FeedPayloads ==
    { [k \in {f \in StateKeys : pick[f] # Absent} |-> FeedValue(k, pick[k])] :
        pick \in { q \in [spots : FeedChoices.spots,
                          spotLocations : FeedChoices.spotLocations,
                          zones : FeedChoices.zones,
                          mapImage : FeedChoices.mapImage] :
                    Cardinality({f \in StateKeys : q[f] # Absent}) <= 2 } }

InitMirror ==
    \E doc \in MirrorDocs :
        /\ appState = [k \in StateKeys \cup {"lastUpdated"} |->
                          IF k = "lastUpdated" THEN NumOf(0) ELSE Stringify(doc)[k]]
        /\ sws = [p \in Peers |-> "OPEN"]
        /\ c2s = [p \in Peers |-> <<>>]
        /\ s2c = [p \in Peers |-> <<>>]
        /\ now = 0
        /\ cws = [p \in Peers |-> "OPEN"]
        /\ spots = [c \in Clients |-> doc.spots]
        /\ spotLocations = [c \in Clients |-> doc.spotLocations]
        /\ zones = [c \in Clients |-> doc.zones]
        /\ mapImage = [c \in Clients |-> doc.mapImage]
        /\ closure = [c \in Clients |-> Mounted(StoredBefore[c], 0)]
        /\ isConnected = [c \in Clients |-> TRUE]
        /\ socketRef = [c \in Clients |-> TRUE]
        /\ reconnectTimeout = [c \in Clients |-> FALSE]
        /\ storage = [c \in Clients |-> PersistSpots(StoredBefore[c], doc.spots)]
        /\ ops = 0
        /\ drops = 0
        /\ last = [op |-> "mount", peer |-> Foreign, log |-> "",
                   prevOp |-> "", prevPeer |-> Foreign, prevLog |-> ""]
        /\ simulation = [c \in Clients |-> <<>>]
        /\ junk = 0
        /\ mounted = [c \in Clients |-> TRUE]
        /\ userRole = [c \in Clients |-> ADMIN]

\* The foreign peer sends the next UPDATE of the sequence.
Feed(payload) ==
    /\ ops < MaxFeed
    /\ c2s' = Transmit(Foreign, Msg("UPDATE", payload))
    /\ ops' = ops + 1
    /\ UNCHANGED <<last, relayVars, s2c, now, cws, docVars, closure, mounted, userRole, connVars,
                   storage, drops>>
    /\ UNCHANGED <<simulation, junk>>

NextMirror ==
    \/ \E payload \in FeedPayloads : Feed(payload)
    \/ RelayOnUpdate(Foreign)
    \/ \E c \in Clients : ClientOnUpdate(c)

SpecMirror == InitMirror /\ [][NextMirror]_vars

(* ----------------------- three-peer specification -------------------- *)
\* Relay and clients start connected with equal documents. The foreign peer
\* sends UPDATEs, the i-th of them carrying a zone drawn at clock reading i
\* (so what it sent earlier is told apart from what it sent later); the
\* clients toggle spots and upload images; a client's transport can be lost.
Tagged(i) ==
    { [zones |-> <<NewZone(i)>>],
      [zones |-> <<NewZone(i)>>, spots |-> <<>>],
      [zones |-> <<NewZone(i)>>, mapImage |-> NULL],
      [zones |-> <<NewZone(i)>>, mapImage |-> "imgB"] }

NextTrio ==
    \/ \E payload \in Tagged(ops + 1) : Feed(payload)
    \/ \E p \in Peers : RelayOnUpdate(p)
    \/ \E p \in Peers : RelayOnClose(p)
    \/ \E p \in Peers : NetDrop(p)
    \/ \E c \in Clients : ClientOnUpdate(c)
    \/ \E c \in Clients : ClientOnClose(c)
    \/ \E c \in Clients : \E id \in SpotIds : handleToggleSpot(c, id)
    \/ \E c \in Clients : \E img \in Images : handleImageUpload(c, img)

SpecTrio == InitMirror /\ [][NextTrio]_vars

(* ------------------------ teardown specification --------------------- *)
\* The one-client system in which the client can be torn down (the page
\* unmounts App). The user acts only while App is mounted; the socket's
\* handlers and the timer callback stay attached after the cleanup.
NextTeardown ==
    \/ \E p \in Peers : RelayConnection(p)
    \/ \E p \in Peers : RelayOnUpdate(p)
    \/ \E p \in Peers : RelayOnSyncInitial(p)
    \/ \E p \in Peers : RelayOnClose(p)
    \/ \E p \in Peers : NetDrop(p)
    \/ \E c \in Solo : ConnectRefused(c)
    \/ \E c \in Solo : ClientOnOpen(c)
    \/ \E c \in Solo : ClientOnInit(c)
    \/ \E c \in Solo : ClientOnUpdate(c)
    \/ \E c \in Solo : ClientOnClose(c)
    \/ \E c \in Solo : Reconnect(c)
    \/ \E c \in Solo : Cleanup(c)
    \/ \E c \in Solo : \E id \in SpotIds : mounted[c] /\ handleToggleSpot(c, id)
    \/ \E m \in ForeignMessages : ForeignSend(m)

SpecTeardown == InitSolo /\ [][NextTeardown]_vars

(* -------------------- lost-connection specification ------------------ *)
\* Relay and clients were connected with equal documents; the connection of
\* the clients in Solo has been lost and both ends have run their close
\* handlers: the relay has no socket for them, the clients are disconnected
\* with the reconnect timer armed (App 153-159).
InitLost ==
    \E doc \in MirrorDocs :
        /\ appState = [k \in StateKeys \cup {"lastUpdated"} |->
                          IF k = "lastUpdated" THEN NumOf(0) ELSE Stringify(doc)[k]]
        /\ sws = [p \in Peers |-> IF p \in Solo THEN "NONE" ELSE "OPEN"]
        /\ c2s = [p \in Peers |-> <<>>]
        /\ s2c = [p \in Peers |-> <<>>]
        /\ now = 0
        /\ cws = [p \in Peers |-> IF p \in Solo THEN "CLOSED" ELSE "OPEN"]
        /\ spots = [c \in Clients |-> doc.spots]
        /\ spotLocations = [c \in Clients |-> doc.spotLocations]
        /\ zones = [c \in Clients |-> doc.zones]
        /\ mapImage = [c \in Clients |-> doc.mapImage]
        /\ closure = [c \in Clients |-> Mounted(StoredBefore[c], 0)]
        /\ isConnected = [c \in Clients |-> c \notin Solo]
        /\ socketRef = [c \in Clients |-> c \notin Solo]
        /\ reconnectTimeout = [c \in Clients |-> c \in Solo]
        /\ storage = [c \in Clients |-> PersistSpots(StoredBefore[c], doc.spots)]
        /\ ops = 0
        /\ drops = 0
        /\ last = [op |-> "RelayOnClose", peer |-> "c2", log |-> "Client disconnected",
                   prevOp |-> "", prevPeer |-> Foreign, prevLog |-> ""]
        /\ simulation = [c \in Clients |-> <<>>]
        /\ junk = 0
        /\ mounted = [c \in Clients |-> TRUE]
        /\ userRole = [c \in Clients |-> ADMIN]

NextLost ==
    \/ \E c \in Clients : Reconnect(c)
    \/ \E p \in Peers : RelayConnection(p)
    \/ \E c \in Clients : ClientOnOpen(c)
    \/ \E c \in Clients : ClientOnInit(c)
    \/ \E c \in Clients : ClientOnUpdate(c)
    \/ \E p \in Peers : RelayOnUpdate(p)
    \/ \E c \in Clients : \E id \in SpotIds : handleToggleSpot(c, id)

SpecLost == InitLost /\ [][NextLost]_vars

(* ------------------------------ claims ------------------------------- *)
\* The four shared fields of a document.
Four(doc) == [k \in StateKeys |-> doc[k]]

\* C1: after the relay handles an UPDATE, every one of the four fields the
\* payload carries, whatever its value, equals the payload's value, and every
\* field the payload omits keeps its value.
C1_RelayUpdateReplacesPresentFields ==
    [][\A p \in Peers : RelayOnUpdate(p) =>
          LET payload == Head(c2s[p]).payload IN
          \A k \in StateKeys :
              appState'[k] = IF k \in DOMAIN payload THEN payload[k]
                             ELSE appState[k]]_vars

\* C2: when the relay handles an UPDATE from peer p, every other peer whose
\* socket is open is sent exactly one UPDATE carrying the received payload.
C2_FanOutComplete ==
    [][\A p \in Peers : RelayOnUpdate(p) =>
          \A q \in Peers \ {p} :
              sws[q] = "OPEN" =>
                  s2c'[q] = Append(s2c[q], Msg("UPDATE", Head(c2s[p]).payload))]_vars

C2_Witness ==
    /\ last.op = "RelayOnUpdate"
    /\ \A q \in Peers : sws[q] = "OPEN"
    /\ \A q \in Peers \ {last.peer} :
          /\ s2c[q] # <<>>
          /\ s2c[q][Len(s2c[q])].type = "UPDATE"

\* C3: the relay never sends an UPDATE back on the connection it came from.
C3_NoSelfEcho ==
    [][\A p \in Peers : RelayOnUpdate(p) => s2c'[p] = s2c[p]]_vars

C3_Witness ==
    /\ last.op = "RelayOnUpdate"
    /\ last.peer = "c1"
    /\ cws["c1"] = "OPEN"
    /\ s2c["c1"] = <<>>
    /\ s2c["c2"] # <<>>

\* C4: accepting a connection sends one INIT carrying the whole document to
\* the new socket, sends nothing to any other peer and leaves the document
\* as it was.
C4_InitToNewConnectionOnly ==
    [][\A p \in Peers : RelayConnection(p) =>
          /\ s2c'[p] = Append(s2c[p], Msg("INIT", appState))
          /\ \A q \in Peers \ {p} : s2c'[q] = s2c[q]
          /\ appState' = appState]_vars

C4_Witness ==
    /\ last.op = "RelayConnection"
    /\ Len(appState.spots) > 0
    /\ s2c[last.peer] = <<Msg("INIT", appState)>>
    /\ \E q \in Peers \ {last.peer} : sws[q] = "OPEN" /\ cws[q] = "OPEN"

SeedLine == "Receiving initial seed data from client"

C6_SyncInitialIgnoredAndSilent ==
    [][\A p \in Peers : RelayOnSyncInitial(p) =>
          /\ s2c' = s2c
          /\ sws' = sws
          /\ Len(appState.spots) > 0 => appState' = appState]_vars

C6_Witness ==
    /\ last.op = "RelayOnSyncInitial" /\ last.peer = "c1" /\ last.log = ""
    /\ sws["c1"] = "OPEN"
    /\ Len(appState.spots) > 0
    /\ Four(appState) # Stringify(closure["c1"])

\* C7: after a client handles an INIT whose spots is non-empty, its four
\* local fields equal the fields of the INIT payload.
C7_InitReplacesWholesale ==
    [][\A c \in Clients :
          (ClientOnInit(c) /\ InitHasData(Head(s2c[c]).payload)) =>
              Stringify(Local(c))' = Four(Head(s2c[c]).payload)]_vars

\* C8: a client handling an INIT whose spots is empty sends one SYNC_INITIAL
\* carrying its local state as it is at that moment, and keeps its local state.
C8_SeedCarriesCurrentState ==
    [][\A c \in Clients :
          (/\ ClientOnInit(c)
           /\ ~InitHasData(Head(s2c[c]).payload)
           /\ sws[c] = "OPEN") =>
              /\ c2s'[c] = Append(c2s[c], Msg("SYNC_INITIAL", Stringify(Local(c))))
              /\ Local(c)' = Local(c)]_vars

\* C9: after a client handles an UPDATE, every field the payload carries,
\* whatever its value, equals the payload's value, and every field the
\* payload omits keeps its value.
C9_ClientUpdateReplacesPresentFields ==
    [][\A c \in Clients : ClientOnUpdate(c) =>
          LET payload == Head(s2c[c]).payload IN
          \A k \in StateKeys :
              Stringify(Local(c))'[k] = IF k \in DOMAIN payload THEN payload[k]
                                        ELSE Stringify(Local(c))[k]]_vars

\* C10: fed the same UPDATEs from equal documents, a client that has handled
\* every UPDATE the relay has broadcast to it holds the relay's four fields.
C10_ClientMirrorsRelay ==
    \A c \in Clients :
        s2c[c] = <<>> => Stringify(Local(c)) = Four(appState)

\* Relay and clients have applied two UPDATEs that between them replaced the
\* spots, the locations and the image.
C10_Witness ==
    /\ ops = 2
    /\ \A p \in Peers : c2s[p] = <<>>
    /\ \A c \in Clients : s2c[c] = <<>>
    /\ appState.mapImage = "imgB"
    /\ appState.spots = <<>>
    /\ appState.spotLocations = Placed

\* The states the mirror runs start from are states of the whole system.
MirrorStartReached ==
    /\ \E doc \in MirrorDocs :
          /\ Four(appState) = Stringify(doc)
          /\ \A c \in Clients : Local(c) = doc
          /\ doc.spots = generateSpots(0)
          /\ storage = [c \in Clients |-> PersistSpots(StoredBefore[c], doc.spots)]
    /\ \A p \in Peers : sws[p] = "OPEN" /\ cws[p] = "OPEN" /\ c2s[p] = <<>>
    /\ \A c \in Clients : s2c[c] = <<>> /\ isConnected[c] /\ socketRef[c]

\* C11: when the relay and a client have applied the same UPDATE payload twice
\* in a row to a document, their four fields are what one application of the
\* payload to that document gives. (c1 has not yet handled the two UPDATEs:
\* its local document is the one the run started from and its queue holds
\* what the relay applied.)
C11_UpdateIdempotent ==
    \A P \in FeedPayloads :
        (/\ ops = 2
         /\ c2s[Foreign] = <<>>
         /\ s2c["c1"] = <<Msg("UPDATE", P), Msg("UPDATE", P)>>) =>
            /\ Four(appState) = MergeUpdate(Stringify(Local("c1")), P)
            /\ s2c["c2"] = <<>> =>
                  Local("c2") = AdoptUpdate(Local("c1"), ParseRevive(P))

\* The relay and c2 have applied twice an UPDATE that adds a zone and
\* replaces the image.
C11_Witness ==
    /\ ops = 2
    /\ c2s[Foreign] = <<>>
    /\ s2c["c2"] = <<>>
    /\ \E P \in FeedPayloads :
          /\ DOMAIN P = {"zones", "mapImage"}
          /\ P.mapImage = "imgB"
          /\ s2c["c1"] = <<Msg("UPDATE", P), Msg("UPDATE", P)>>
    /\ zones["c2"] = <<NewZone(0)>>
    /\ mapImage["c2"] = "imgB"
    /\ mapImage["c1"] = "imgA"

\* C12: when the relay and a client have applied an UPDATE carrying only
\* spots S and an UPDATE carrying only zones Z, in either order, to a document
\* D, their four fields are D with spots = S and zones = Z. (c1 has not yet
\* handled the two UPDATEs: its local document is D and its queue holds what
\* the relay applied.)
C12_FieldIndependence ==
    LET q == s2c["c1"] IN
    (/\ ops = 2
     /\ c2s[Foreign] = <<>>
     /\ Len(q) = 2
     /\ {DOMAIN q[1].payload, DOMAIN q[2].payload} = {{"spots"}, {"zones"}}) =>
        LET first == q[1].payload
            second == q[2].payload
            S == IF "spots" \in DOMAIN first THEN first.spots ELSE second.spots
            Z == IF "zones" \in DOMAIN first THEN first.zones ELSE second.zones
            D == Stringify(Local("c1"))
            expected == [D EXCEPT !.spots = S, !.zones = Z]
        IN  /\ Four(appState) = expected
            /\ s2c["c2"] = <<>> => Stringify(Local("c2")) = expected

\* The relay and c2 have applied {zones: Z} and then {spots: S}, S not empty.
C12_Witness ==
    /\ ops = 2
    /\ c2s[Foreign] = <<>>
    /\ s2c["c2"] = <<>>
    /\ s2c["c1"] = <<Msg("UPDATE", [zones |-> <<NewZone(0)>>]),
                     Msg("UPDATE", [spots |-> StringifySpots(Parked)])>>
    /\ spots["c2"] = Parked
    /\ spots["c1"] # Parked
    /\ zones["c2"] = <<NewZone(0)>>
    /\ appState.zones = <<NewZone(0)>>
    /\ mapImage["c2"] = "imgA"

\* The same, applied in the other order.
C12_WitnessSpotsFirst ==
    /\ ops = 2
    /\ c2s[Foreign] = <<>>
    /\ s2c["c2"] = <<>>
    /\ s2c["c1"] = <<Msg("UPDATE", [spots |-> StringifySpots(Parked)]),
                     Msg("UPDATE", [zones |-> <<NewZone(0)>>])>>
    /\ spots["c2"] = Parked
    /\ zones["c2"] = <<NewZone(0)>>

\* Client c has an open transport: its socket is set and open at both ends.
Connected(c) == socketRef[c] /\ cws[c] = "OPEN" /\ sws[c] = "OPEN"

\* This step sent one UPDATE carrying exactly payload, JSON-encoded, on the
\* connection of c and nothing on any other.
Published(c, payload) ==
    c2s' = [c2s EXCEPT ![c] = Append(@, Msg("UPDATE", Stringify(payload)))]

\* This step changed no local field of c other than those in changed.
OnlyChanged(c, changed) ==
    \A k \in StateKeys \ changed : Local(c)'[k] = Local(c)[k]

\* C13: every handler that calls broadcastUpdate(payload) while its client
\* has an open transport sends exactly one UPDATE whose payload has exactly
\* the fields and values the handler passed, and the local state changes only
\* in the field the handler itself set before publishing (in none for the
\* quick save, which only publishes).
C13_PublishWhileConnected ==
    [][\A c \in Clients : Connected(c) =>
          /\ \A id \in SpotIds : handleToggleSpot(c, id) =>
                /\ Published(c, [spots |-> Toggled(spots[c], id, now')])
                /\ OnlyChanged(c, {"spots"})
          /\ \A img \in Images : handleImageUpload(c, img) =>
                /\ Published(c, [mapImage |-> img])
                /\ OnlyChanged(c, {"mapImage"})
          /\ \A t \in Clock : handleAddZone(c, NewZone(t), t) =>
                /\ Published(c, [zones |-> Append(zones[c], NewZone(t))])
                /\ OnlyChanged(c, {"zones"})
          /\ \A id \in SpotIds : \A location \in Locations :
                handleUpdateLocation(c, id, location) =>
                    /\ Published(c, [spotLocations |-> spotLocations'[c]])
                    /\ OnlyChanged(c, {"spotLocations"})
          /\ \A id \in ZoneIds(c) : \A updates \in ZoneUpdates :
                handleUpdateZone(c, id, updates) =>
                    /\ Published(c, [zones |-> zones'[c]])
                    /\ OnlyChanged(c, {"zones"})
          /\ \A id \in ZoneIds(c) : handleDeleteZone(c, id) =>
                /\ Published(c, [zones |-> zones'[c]])
                /\ OnlyChanged(c, {"zones"})
          /\ handleQuickSaveLayout(c) =>
                /\ Published(c, [spotLocations |-> spotLocations[c],
                                 zones |-> zones[c]])
                /\ OnlyChanged(c, {})
          /\ \A result \in SimulationResults : SimulationDone(c, result) =>
                /\ Published(c, [spots |-> spots'[c]])
                /\ OnlyChanged(c, {"spots"})]_vars

\* The connected client has drawn a second zone; one UPDATE carrying its two
\* zones and nothing else is on its way to the relay.
C13_Witness ==
    /\ ops = 1
    /\ Connected("c2")
    /\ Len(zones["c2"]) = 2
    /\ c2s["c2"] = <<Msg("UPDATE", [zones |-> zones["c2"]])>>
    /\ spotLocations["c2"] = SavedLocations
    /\ mapImage["c2"] = "imgA"

\* The storage key each local field is kept under.
FieldKey ==
    [spots |-> STORAGE_KEYS.SPOTS, spotLocations |-> STORAGE_KEYS.LOCATIONS,
     zones |-> STORAGE_KEYS.ZONES, mapImage |-> STORAGE_KEYS.IMAGE]

\* A step of one of the handlers by which the user of c changes a field.
LocalMutation(c) ==
    \/ \E id \in SpotIds : handleToggleSpot(c, id)
    \/ \E img \in Images : handleImageUpload(c, img)
    \/ \E t \in Clock : handleAddZone(c, NewZone(t), t)
    \/ \E id \in SpotIds : \E location \in Locations :
          handleUpdateLocation(c, id, location)
    \/ \E id \in ZoneIds(c) : \E updates \in ZoneUpdates :
          handleUpdateZone(c, id, updates)
    \/ \E id \in ZoneIds(c) : handleDeleteZone(c, id)

\* C14: a local mutation made while the client is disconnected sends nothing
\* on any transport, and every field it changed is afterwards held, JSON-
\* encoded, in localStorage under the key of that field.
C14_OfflineMutationRecorded ==
    [][\A c \in Clients : (~isConnected[c] /\ LocalMutation(c)) =>
          /\ c2s' = c2s
          /\ s2c' = s2c
          /\ \A k \in StateKeys : Local(c)'[k] # Local(c)[k] =>
                /\ FieldKey[k] \in DOMAIN storage'[c]
                /\ storage'[c][FieldKey[k]] = Stringify(Local(c))'[k]]_vars

\* C15: whenever a step changes the local spots of a client, connected or
\* not, localStorage afterwards holds under the spots key the JSON encoding of
\* the new local spots.
C15_SpotsAlwaysPersisted ==
    [][\A c \in Clients : spots'[c] # spots[c] =>
          /\ STORAGE_KEYS.SPOTS \in DOMAIN storage'[c]
          /\ storage'[c][STORAGE_KEYS.SPOTS] = StringifySpots(spots'[c])]_vars

\* A simulation that came back with every spot taken has changed the spots
\* of the connected client, and they are in localStorage.
C15_Witness ==
    /\ ops = 1
    /\ isConnected["c2"]
    /\ simulation["c2"] = <<>>
    /\ \A i \in 1..Len(spots["c2"]) :
          spots["c2"][i].status = OCCUPIED /\ spots["c2"][i].lastUpdated = DateOf(1)
    /\ storage["c2"][STORAGE_KEYS.SPOTS] = StringifySpots(spots["c2"])

\* The same for a client that is not connected and toggled a spot.
C15_WitnessOffline ==
    /\ ops = 1
    /\ ~isConnected["c2"]
    /\ spots["c2"] = Toggled(closure["c2"].spots, "C-01", 0)
    /\ storage["c2"][STORAGE_KEYS.SPOTS] = StringifySpots(spots["c2"])

\* C16: a storage event handled while isConnected is true, for any of the
\* four keys, written or removed, changes no local field of the client and
\* sends nothing in either direction.
C16_FallbackIgnoredWhileConnected ==
    [][\A c \in Clients : \A e \in StorageEvents :
          (isConnected[c] /\ handleStorageChange(c, e)) =>
              /\ Local(c)' = Local(c)
              /\ c2s' = c2s
              /\ s2c' = s2c]_vars

\* Another tab has written a new image while the client was connected: the
\* store holds it, the client still shows its own, nothing is in flight.
C16_Witness ==
    /\ ops = 1
    /\ isConnected["c2"]
    /\ STORAGE_KEYS.IMAGE \in DOMAIN storage["c2"]
    /\ storage["c2"][STORAGE_KEYS.IMAGE] = "imgB"
    /\ Local("c2") = closure["c2"]
    /\ c2s["c2"] = <<>>
    /\ s2c["c2"] = <<>>

\* C17: a storage event that carries a key and a new value, handled while
\* isConnected is false, makes the local field the key names equal to the
\* value written and leaves the other three local fields as they were.
C17_FallbackReplacesNamedField ==
    [][\A c \in Clients : \A e \in StorageEvents :
          (~isConnected[c] /\ ~e.removed /\ handleStorageChange(c, e)) =>
              /\ Stringify(Local(c))'[KeyField[e.key]] = WrittenValue(e.key)
              /\ OnlyChanged(c, {KeyField[e.key]})]_vars

\* Another tab has written the zones while the client was not connected:
\* the client shows them, its other fields are those it mounted with.
C17_Witness ==
    /\ ops = 1
    /\ ~isConnected["c2"]
    /\ STORAGE_KEYS.ZONES \in DOMAIN storage["c2"]
    /\ storage["c2"][STORAGE_KEYS.ZONES] = <<NewZone(0)>>
    /\ zones["c2"] = <<NewZone(0)>>
    /\ closure["c2"].zones = SavedZones
    /\ spots["c2"] = closure["c2"].spots
    /\ spotLocations["c2"] = SavedLocations
    /\ mapImage["c2"] = "imgA"

\* The transport of c has closed and its onclose has not run yet.
CloseEventPending(c) ==
    \/ cws[c] = "OPEN" /\ sws[c] # "OPEN"
    \/ cws[c] = "FAILED"

C19_ConnectionStateMachine ==
    /\ [](\A c \in Clients :
            /\ socketRef[c] = isConnected[c]
            /\ isConnected[c] = (cws[c] = "OPEN"))
    /\ [][\A c \in Clients :
            /\ (~isConnected[c] /\ isConnected'[c]) => ClientOnOpen(c)
            /\ (isConnected[c] /\ ~isConnected'[c]) => ClientOnClose(c)
            /\ ClientOnOpen(c) => isConnected'[c]
            /\ ClientOnClose(c) => ~isConnected'[c]]_vars

\* The client was connected, lost its transport and has handled the close:
\* it is disconnected, without a socket, waiting for its timer.
C19_Witness ==
    /\ drops = 1
    /\ last.op = "RelayConnection" /\ last.peer = "c2"
    /\ cws["c2"] = "CLOSED"
    /\ ~isConnected["c2"]
    /\ ~socketRef["c2"]
    /\ reconnectTimeout["c2"]

\* C20: handling a text that cannot be parsed or a message without a type
\* changes no document, sends nothing, closes nothing and leaves the rest of
\* the connection's queue to be handled by open sockets: at the relay and at
\* the client.
C20_MalformedDiscarded ==
    [][/\ \A p \in Peers : RelayOnDiscard(p) =>
             /\ Head(c2s[p]) \in Malformed
             /\ appState' = appState
             /\ s2c' = s2c
             /\ sws' = sws /\ cws' = cws
             /\ c2s' = [c2s EXCEPT ![p] = Tail(@)]
       /\ \A c \in Clients : ClientOnDiscard(c) =>
             /\ Head(s2c[c]) \in Malformed
             /\ Local(c)' = Local(c)
             /\ storage' = storage
             /\ c2s' = c2s
             /\ sws' = sws /\ cws' = cws
             /\ isConnected' = isConnected /\ socketRef' = socketRef
             /\ s2c' = [s2c EXCEPT ![c] = Tail(@)]]_vars

\* The relay discarded a malformed text of the foreign peer and then handled
\* that peer's next UPDATE, which replaced the image.
C20_Witness ==
    /\ junk = 1
    /\ last.op = "RelayOnUpdate" /\ last.peer = Foreign
    /\ last.prevOp = "RelayOnDiscard" /\ last.prevPeer = Foreign
    /\ sws[Foreign] = "OPEN"
    /\ appState.mapImage = "imgB"

\* C21: the relay's close handler changes neither the document nor any
\* queue; a peer whose socket is not open is sent nothing by a broadcast,
\* then or later (nothing is ever queued towards it); and an UPDATE handled
\* after a disconnect is merged into the document and sent once to every
\* other peer whose socket is open.
C21_DisconnectedPeerSkipped ==
    /\ [](\A q \in Peers : sws[q] # "OPEN" => s2c[q] = <<>>)
    /\ [][/\ \A p \in Peers : RelayOnClose(p) =>
                 appState' = appState /\ s2c' = s2c /\ c2s' = c2s
          /\ \A p \in Peers : RelayOnUpdate(p) =>
                 LET payload == Head(c2s[p]).payload IN
                 /\ Four(appState') = Four(MergeUpdate(appState, payload))
                 /\ \A q \in Peers :
                       s2c'[q] = IF q # p /\ sws[q] = "OPEN"
                                 THEN Append(s2c[q], Msg("UPDATE", payload))
                                 ELSE s2c[q]]_vars

\* c1 has disconnected and the relay has handled its close; the UPDATE of
\* the foreign peer handled next was merged and went to c2 only.
C21_Witness ==
    /\ drops = 1
    /\ sws["c1"] = "NONE"
    /\ last.op = "RelayOnUpdate" /\ last.peer = Foreign
    /\ last.prevOp = "RelayOnClose" /\ last.prevPeer = "c1"
    /\ s2c["c1"] = <<>>
    /\ s2c["c2"] = <<Msg("UPDATE", [zones |-> <<NewZone(1)>>, mapImage |-> "imgB"])>>
    /\ appState.zones = <<NewZone(1)>>
    /\ appState.mapImage = "imgB"

\* The place in the foreign peer's sending order of the UPDATE a zones value
\* came from; 0 for a zones value that is not from the foreign peer.
ZoneTag(zs) ==
    IF \E i \in 1..MaxFeed : zs = <<NewZone(i)>>
    THEN CHOOSE i \in 1..MaxFeed : zs = <<NewZone(i)>>
    ELSE 0

\* The foreign peer's UPDATEs in a queue, as their places in its sending order.
ForeignTags(queue) ==
    LET own == SelectSeq(queue, LAMBDA m : m.type = "UPDATE" /\ "zones" \in DOMAIN m.payload)
    IN  [i \in 1..Len(own) |-> ZoneTag(own[i].payload.zones)]

Ascending(tags) == \A i \in 1..(Len(tags) - 1) : tags[i] < tags[i + 1]

\* C22: of the UPDATEs one peer sends on one connection, the relay has
\* always applied an initial part, in sending order (its document holds the
\* latest it applied, and everything still on the way to it was sent later),
\* and every other peer is sent the re-broadcasts in that same order: what
\* is on the way to a client is in sending order, later than what the client
\* has adopted, and, while no connection was lost, ends with the UPDATE the
\* relay applied last.
C22_PerConnectionOrder ==
    LET applied == ZoneTag(appState.zones)
        pending == ForeignTags(c2s[Foreign])
    IN  /\ Ascending(pending)
        /\ pending # <<>> => applied < pending[1]
        /\ applied <= ops
        /\ \A c \in Clients :
              LET coming == ForeignTags(s2c[c]) IN
              /\ Ascending(coming)
              /\ coming # <<>> => ZoneTag(zones[c]) < coming[1]
              /\ coming # <<>> /\ drops = 0 => coming[Len(coming)] = applied
              /\ coming = <<>> /\ drops = 0 => ZoneTag(zones[c]) = applied

\* The foreign peer sent two UPDATEs; the relay applied both; c1 has adopted
\* both and c2 still has both on the way to it, the first sent first.
C22_Witness ==
    /\ ops = 2 /\ drops = 0
    /\ c2s[Foreign] = <<>>
    /\ ZoneTag(appState.zones) = 2
    /\ ZoneTag(zones["c1"]) = 2 /\ s2c["c1"] = <<>>
    /\ Len(s2c["c2"]) = 2
    /\ ForeignTags(s2c["c2"]) = <<1, 2>>
    /\ ZoneTag(zones["c2"]) = 0

\* c1 and the foreign peer each sent one UPDATE and the relay has handled
\* both; c2, which sent nothing, is the third peer.
BothHandled ==
    /\ ops = 2 /\ drops = 0
    /\ last.op = "RelayOnUpdate" /\ last.prevOp = "RelayOnUpdate"
    /\ {last.peer, last.prevPeer} = {"c1", Foreign}

\* The value of field k carried by the later of the UPDATEs in log that
\* carry k; the value in doc when none carries it.
LastCarried(doc, log, k) ==
    LET carrying == SelectSeq(log, LAMBDA m : k \in DOMAIN m.payload)
    IN  IF carrying = <<>> THEN doc[k]
        ELSE carrying[Len(carrying)].payload[k]

\* C23: when c1 and the foreign peer have updated concurrently, then in
\* whichever order the relay handled the two, each field of the relay's
\* document has the value carried by the one handled last that carries the
\* field (seen while both re-broadcasts are still on their way to c2, in the
\* order handled), and once both are delivered c2 has the relay's values.
C23_LastProcessedWins ==
    BothHandled =>
        /\ Len(s2c["c2"]) = 2 =>
              \A k \in StateKeys :
                 appState[k] = LastCarried(Stringify(Local("c2")), s2c["c2"], k)
        /\ s2c["c2"] = <<>> => Stringify(Local("c2")) = Four(appState)

\* The four fields after the relay's rule (server.js 43-46) is applied for
\* the whole of u1 and then for the whole of u2.
OneAfterOther(doc, u1, u2) ==
    [k \in StateKeys |->
        IF Given(u2, k) THEN u2[k]
        ELSE IF Given(u1, k) THEN u1[k]
        ELSE doc[k]]

\* C24: when the relay handles an UPDATE of one peer while an UPDATE of
\* another peer is waiting, the step merges the whole of the first and
\* nothing of the second, leaves the second waiting untouched, and sends a
\* message carrying exactly the first one's payload; and after c1's and the
\* foreign peer's UPDATEs are both handled the document is what applying one
\* and then the other gives, in the order their re-broadcasts are queued.
C24_RelaySerialization ==
    /\ [](BothHandled /\ Len(s2c["c2"]) = 2 =>
             Four(appState) =
                 OneAfterOther(Stringify(Local("c2")),
                               s2c["c2"][1].payload, s2c["c2"][2].payload))
    /\ [][\A p \in Peers : \A q \in Peers \ {p} :
             (RelayOnUpdate(p) /\ c2s[q] # <<>>) =>
                 LET u == Head(c2s[p]).payload IN
                 /\ Four(appState') = OneAfterOther(Four(appState), u, u)
                 /\ c2s'[q] = c2s[q]
                 /\ \A r \in Clients \ {p} :
                       s2c'[r] \in {s2c[r], Append(s2c[r], Msg("UPDATE", u))}]_vars

\* c1 uploaded an image while the foreign peer sent zones and another
\* image; the relay handled the foreign peer's UPDATE first and c1's second:
\* the zones are the foreign peer's and the image is c1's.
C24_Witness ==
    /\ BothHandled
    /\ last.prevPeer = Foreign /\ last.peer = "c1"
    /\ Len(s2c["c2"]) = 2
    /\ s2c["c2"][1].payload = [zones |-> <<NewZone(2)>>, mapImage |-> "imgB"]
    /\ s2c["c2"][2].payload = [mapImage |-> "imgA"]
    /\ appState.mapImage = "imgA"
    /\ appState.zones = <<NewZone(2)>>

\* The relay's spots go from empty to non-empty in this step.
BecomesNonEmpty == Len(appState.spots) = 0 /\ Len(appState'.spots) > 0

\* C25 as stated: every step in which the relay's spots go from empty to
\* non-empty is the handling of a SYNC_INITIAL.
C25_OnlySyncInitialFillsEmptyRelay ==
    [][BecomesNonEmpty => \E p \in Peers : RelayOnSyncInitial(p)]_vars

\* C25 amended: every step in which the relay's spots go from empty to
\* non-empty is the handling of a SYNC_INITIAL or of an UPDATE, the message
\* handled carries non-empty spots, and those are the relay's new spots; no
\* connection, disconnection or other message does it.
C25_OnlySeedOrUpdateFillsEmptyRelay ==
    [][BecomesNonEmpty =>
          \E p \in Peers :
             /\ RelayOnSyncInitial(p) \/ RelayOnUpdate(p)
             /\ "spots" \in DOMAIN Head(c2s[p]).payload
             /\ appState'.spots = Head(c2s[p]).payload.spots]_vars

\* c1 toggled a spot after its socket opened and before it handled INIT:
\* its UPDATE filled the empty relay, its SYNC_INITIAL is still on the way,
\* and no other peer has sent anything.
C25_Witness ==
    /\ ops = 1 /\ drops = 0
    /\ last.op = "RelayOnUpdate" /\ last.peer = "c1"
    /\ Len(appState.spots) > 0
    /\ appState.spots = StringifySpots(spots["c1"])
    /\ Len(c2s["c1"]) = 1 /\ c2s["c1"][1].type = "SYNC_INITIAL"
    /\ sws["c2"] = "NONE" /\ c2s["c2"] = <<>> /\ c2s[Foreign] = <<>>

\* c2's SYNC_INITIAL filled the empty relay: nothing else was ever sent.
C25_WitnessSeed ==
    /\ ops = 0 /\ drops = 0
    /\ last.op = "RelayOnSyncInitial" /\ last.peer = "c2" /\ last.log = SeedLine
    /\ last.prevOp = "RelayConnection"
    /\ appState.spots = StringifySpots(closure["c2"].spots)
    /\ sws["c1"] = "NONE"

\* C26: a client's SYNC_INITIAL that reaches an empty relay becomes the
\* document; one that reaches a relay whose spots are non-empty changes
\* nothing at the relay, is answered with no message to any peer, and leaves
\* every client's local state as it was; and a client's local state is only
\* ever changed by its own INIT or UPDATE handler or by the user's actions,
\* so the client whose seed was dropped stays unreconciled until then.
C26_SeedingRace ==
    [][/\ \A c \in Clients : RelayOnSyncInitial(c) =>
             /\ s2c' = s2c /\ sws' = sws /\ docVars' = docVars
             /\ IF Len(appState.spots) = 0
                THEN Four(appState') = Four(Head(c2s[c]).payload)
                ELSE appState' = appState
       /\ \A c \in Clients : Local(c)' # Local(c) =>
             \/ ClientOnInit(c) \/ ClientOnUpdate(c)
             \/ LocalMutation(c)]_vars

\* Both clients got the empty INIT and sent their seeds; c2's arrived first
\* and was adopted, c1's was dropped: nothing is on the way to c1, and c1
\* still has the state it mounted with, which is not the relay's document.
C26_Witness ==
    /\ ops = 0 /\ drops = 0
    /\ last.op = "RelayOnSyncInitial" /\ last.peer = "c1" /\ last.log = ""
    /\ last.prevOp = "RelayOnSyncInitial" /\ last.prevPeer = "c2"
    /\ last.prevLog = SeedLine
    /\ Four(appState) = Stringify(closure["c2"])
    /\ s2c["c1"] = <<>> /\ s2c["c2"] = <<>>
    /\ Local("c1") = closure["c1"]
    /\ Stringify(Local("c1")) # Four(appState)

LostStartReached ==
    /\ \E doc \in MirrorDocs :
          /\ Four(appState) = Stringify(doc)
          /\ \A c \in Clients : Local(c) = doc
          /\ storage = [c \in Clients |-> PersistSpots(StoredBefore[c], doc.spots)]
    /\ sws = [p \in Peers |-> IF p \in Solo THEN "NONE" ELSE "OPEN"]
    /\ cws = [p \in Peers |-> IF p \in Solo THEN "CLOSED" ELSE "OPEN"]
    /\ \A p \in Peers : c2s[p] = <<>>
    /\ \A c \in Clients : s2c[c] = <<>>
    /\ isConnected = [c \in Clients |-> c \notin Solo]
    /\ socketRef = [c \in Clients |-> c \notin Solo]
    /\ reconnectTimeout = [c \in Clients |-> c \in Solo]
    /\ closure = [c \in Clients |-> Mounted(StoredBefore[c], 0)]
    /\ last.op = "RelayOnClose" /\ last.peer = "c2"

C29_WriteFailureStillPublishes ==
    [][\A c \in Solo :
          /\ \A img \in Images : handleImageUploadThrows(c, img) =>
                /\ mapImage'[c] = img
                /\ Connected(c) => Published(c, [mapImage |-> img])
          /\ \A written \in {0, 1} : handleQuickSaveLayoutThrows(c, written) =>
                /\ Local(c)' = Local(c)
                /\ Connected(c) =>
                      Published(c, [spotLocations |-> spotLocations[c],
                                    zones |-> zones[c]])]_vars

\* C30: every step in which the relay accepts an update (an UPDATE, or a
\* SYNC_INITIAL handled while its spots are empty) leaves lastUpdated equal
\* to a reading of the clock taken in that step, no earlier than the last
\* reading anyone took; and no step makes lastUpdated smaller.
C30_LastUpdatedStamped ==
    [][/\ \A p \in Peers :
             (\/ RelayOnUpdate(p)
              \/ RelayOnSyncInitial(p) /\ Len(appState.spots) = 0) =>
                 \E t \in Clock : appState'.lastUpdated = NumOf(t)
       /\ appState.lastUpdated[2] <= appState'.lastUpdated[2]]_vars

\* C31: once the cleanup of the connection effect has run for a client, no
\* step arms its reconnect timer and no step gives it a new connecting
\* transport, the step that handles the close event of the transport the
\* cleanup closed included.
C31_NoReconnectAfterTeardown ==
    [][\A c \in Clients : ~mounted[c] =>
          /\ reconnectTimeout'[c] => reconnectTimeout[c]
          /\ cws'[c] = "CONNECTING" => cws[c] = "CONNECTING"]_vars

\* C32 as stated: no step takes the relay's spots from non-empty to empty.
C32_NeverEmptyAgain ==
    [][Len(appState.spots) > 0 => Len(appState'.spots) > 0]_vars

\* C32 amended: the only step that takes the relay's spots from non-empty
\* to empty is the handling of an UPDATE whose payload carries an empty
\* spots sequence; a SYNC_INITIAL changes the document only when the spots
\* are empty; and a message a client sends carries, when it carries spots,
\* as many spots as the client held (locally or at mount), so a client
\* holding spots never sends empty ones.
C32_EmptiedOnlyByEmptyUpdate ==
    [][/\ (Len(appState.spots) > 0 /\ Len(appState'.spots) = 0) =>
             \E p \in Peers :
                /\ RelayOnUpdate(p)
                /\ "spots" \in DOMAIN Head(c2s[p]).payload
                /\ Head(c2s[p]).payload.spots = <<>>
       /\ \A p \in Peers :
             (RelayOnSyncInitial(p) /\ appState' # appState) => appState.spots = <<>>
       /\ \A c \in Clients :
             (Len(c2s'[c]) > Len(c2s[c])
                 /\ "spots" \in DOMAIN c2s'[c][Len(c2s'[c])].payload) =>
             Len(c2s'[c][Len(c2s'[c])].payload.spots)
                 \in {Len(spots[c]), Len(closure[c].spots)}]_vars

\* The relay was seeded by c1, dropped c2's SYNC_INITIAL, and then handled
\* the UPDATE of a toggle: its spots are still there.
C32_Witness ==
    /\ ops = 1
    /\ last.op = "RelayOnUpdate" /\ last.peer \in Clients
    /\ last.prevOp = "RelayOnSyncInitial" /\ last.prevPeer = "c2" /\ last.prevLog = ""
    /\ Len(appState.spots) = Len(generateSpots(0))
    /\ appState.spots # StringifySpots(closure["c1"].spots)
    /\ appState.spots # StringifySpots(closure["c2"].spots)

(* ----------------------- two-writer specifications ------------------- *)
\* Relay and clients start connected with equal documents, and c1 has just
\* toggled a spot: its spots are the toggled ones, the spots effect has
\* persisted them and the UPDATE is on its way to the relay.
InitPair ==
    \E doc \in MirrorDocs : \E id \in SpotIds :
      LET newSpots == Toggled(doc.spots, id, 0) IN
        /\ appState = [k \in StateKeys \cup {"lastUpdated"} |->
                          IF k = "lastUpdated" THEN NumOf(0) ELSE Stringify(doc)[k]]
        /\ sws = [p \in Peers |-> "OPEN"]
        /\ c2s = [p \in Peers |->
                     IF p = "c1" THEN <<Msg("UPDATE", Stringify([spots |-> newSpots]))>>
                     ELSE <<>>]
        /\ s2c = [p \in Peers |-> <<>>]
        /\ now = 0
        /\ cws = [p \in Peers |-> "OPEN"]
        /\ spots = [c \in Clients |-> IF c = "c1" THEN newSpots ELSE doc.spots]
        /\ spotLocations = [c \in Clients |-> doc.spotLocations]
        /\ zones = [c \in Clients |-> doc.zones]
        /\ mapImage = [c \in Clients |-> doc.mapImage]
        /\ closure = [c \in Clients |-> Mounted(StoredBefore[c], 0)]
        /\ isConnected = [c \in Clients |-> TRUE]
        /\ socketRef = [c \in Clients |-> TRUE]
        /\ reconnectTimeout = [c \in Clients |-> FALSE]
        /\ storage = [c \in Clients |->
                         PersistSpots(StoredBefore[c],
                                      IF c = "c1" THEN newSpots ELSE doc.spots)]
        /\ ops = 0
        /\ drops = 0
        /\ last = [op |-> "mount", peer |-> Foreign, log |-> "",
                   prevOp |-> "", prevPeer |-> Foreign, prevLog |-> ""]
        /\ simulation = [c \in Clients |-> <<>>]
        /\ junk = 0
        /\ mounted = [c \in Clients |-> TRUE]
        /\ userRole = [c \in Clients |-> ADMIN]

\* c1 goes on editing the spots while c2 edits the other three fields; every
\* message is delivered.
NextApart ==
    \/ \E c \in Clients : RelayOnUpdate(c)
    \/ \E c \in Clients : ClientOnUpdate(c)
    \/ \E id \in SpotIds : handleToggleSpot("c1", id)
    \/ \E img \in Images : handleImageUpload("c2", img)
    \/ \E t \in Clock : handleAddZone("c2", NewZone(t), t)
    \/ \E id \in SpotIds : \E location \in Locations :
          handleUpdateLocation("c2", id, location)
    \/ \E id \in ZoneIds("c2") : \E updates \in ZoneUpdates :
          handleUpdateZone("c2", id, updates)
    \/ \E id \in ZoneIds("c2") : handleDeleteZone("c2", id)

SpecApart == InitPair /\ [][NextApart]_vars

\* Both clients edit the spots; every message is delivered.
NextClash ==
    \/ \E c \in Clients : RelayOnUpdate(c)
    \/ \E c \in Clients : ClientOnUpdate(c)
    \/ \E c \in Clients : \E id \in SpotIds : handleToggleSpot(c, id)

SpecClash == InitPair /\ [][NextClash]_vars

\* Nothing is in flight between the relay and any client.
Quiet == \A c \in Clients : c2s[c] = <<>> /\ s2c[c] = <<>>

\* The four fields of client c are, as JSON, the relay's.
InSync(c) == \A k \in StateKeys : Stringify(Local(c))[k] = appState[k]

\* C33: c1 edits only the spots and c2 only the locations, the zones and
\* the image; whenever nothing is in flight any more, the spots, the
\* locations, the zones and the image of every client equal the relay's.
C33_DisjointFieldsConverge ==
    Quiet => \A c \in Clients : InSync(c)

\* c1 toggled a spot and c2 changed its zones before either heard of the
\* other's edit (the relay handled c2's UPDATE before c1's, which was sent
\* first); both UPDATEs have been handled by the relay and by the other
\* client, and everyone holds the toggled spots and the new zones.
C33_Witness ==
    /\ Quiet /\ ops = 1
    /\ last.op = "RelayOnUpdate" /\ last.prevOp = "RelayOnUpdate"
    /\ last.peer = "c1" /\ last.prevPeer = "c2"
    /\ zones["c1"] # closure["c2"].zones /\ zones["c1"] = zones["c2"]
    /\ spots["c2"] = spots["c1"]
    /\ \A c \in Clients : InSync(c)

\* C34: both clients toggle spots; whenever nothing is in flight any more,
\* the spots of each client equal the relay's.
C34_SameFieldConverges ==
    Quiet => \A c \in Clients : StringifySpots(spots[c]) = appState.spots

\* The positions of the INIT messages in a queue.
InitPositions(q) == {i \in 1..Len(q) : q[i].type = "INIT"}

\* C35: a connection is accepted with nothing queued for the peer, and the
\* INIT is queued in that step; no other step queues an INIT or opens the
\* relay's socket of a peer, so a queue holds at most one INIT and nothing
\* ahead of it but what the client has already taken; an UPDATE is queued
\* for a peer only while its socket is open, hence after its INIT; and every
\* UPDATE the relay handles from another peer while the peer's socket is
\* open is queued for it, behind everything queued before.
C35_InitFirstThenEveryUpdate ==
    /\ [](\A p \in Peers : InitPositions(s2c[p]) \subseteq {1})
    /\ [][\A p \in Peers :
             /\ RelayConnection(p) =>
                   /\ s2c[p] = <<>>
                   /\ Len(s2c'[p]) = 1 /\ s2c'[p][1].type = "INIT"
                   /\ \A k \in StateKeys : s2c'[p][1].payload[k] = appState[k]
             /\ (sws[p] # "OPEN" /\ sws'[p] = "OPEN") => RelayConnection(p)
             /\ InitPositions(s2c'[p]) # {} /\ InitPositions(s2c[p]) = {} =>
                   RelayConnection(p)
             /\ (Len(s2c'[p]) > Len(s2c[p]) /\ ~RelayConnection(p)) =>
                   /\ sws[p] = "OPEN"
                   /\ s2c'[p][Len(s2c'[p])].type = "UPDATE"
             /\ \A q \in Peers \ {p} :
                   (RelayOnUpdate(q) /\ sws[p] = "OPEN") =>
                      s2c'[p] = Append(s2c[p], Msg("UPDATE", Head(c2s[q]).payload))]_vars

\* c2 has not yet taken its INIT, and behind it waits the UPDATE of the
\* toggle c1 made after c2's connection was accepted.
C35_Witness ==
    /\ Len(s2c["c2"]) = 2
    /\ s2c["c2"][1].type = "INIT" /\ s2c["c2"][2].type = "UPDATE"
    /\ last.op = "RelayOnUpdate" /\ last.peer = "c1"
    /\ sws["c2"] = "OPEN"

\* C36: a client whose reconnect timer is pending has no transport that is
\* connecting or open; the timer is armed only by the handling of a close
\* event and never while it is already pending; and a client gets a new
\* connecting transport only when its armed timer fires, its previous
\* transport being closed then.
C36_OneTransportOneTimer ==
    /\ [](\A c \in Clients : reconnectTimeout[c] => cws[c] = "CLOSED")
    /\ [][\A c \in Clients :
             /\ ClientOnClose(c) => ~reconnectTimeout[c]
             /\ (reconnectTimeout'[c] /\ ~reconnectTimeout[c]) => ClientOnClose(c)
             /\ (cws'[c] = "CONNECTING" /\ cws[c] # "CONNECTING") =>
                   /\ Reconnect(c)
                   /\ cws[c] = "CLOSED"
                   /\ reconnectTimeout[c] /\ ~reconnectTimeout'[c]]_vars

\* The transport c2 had was lost or refused and its close event handled;
\* the timer fired, and the transport made by connect() is connecting.
C36_Witness ==
    /\ mounted["c2"] /\ drops = 1
    /\ cws["c2"] = "CONNECTING" /\ sws["c2"] = "NONE"
    /\ ~reconnectTimeout["c2"]

(* ------------------------ simulation specification ------------------- *)
\* Relay and clients are connected, c1's toggle is on its way; a client runs
\* a simulation, which completes at any later time, while UPDATEs are handled
\* by the relay and by the clients.
NextSim ==
    \/ \E c \in Clients : RelayOnUpdate(c)
    \/ \E c \in Clients : ClientOnUpdate(c)
    \/ \E c \in Clients : \E id \in SpotIds : handleToggleSpot(c, id)
    \/ \E c \in Clients : handleSimulation(c)
    \/ \E c \in Clients : \E result \in SimulationResults : SimulationDone(c, result)

SpecSim == InitPair /\ [][NextSim]_vars

\* C37: when a simulation completes, the spots the client then holds are
\* the result of the simulation on the spots it held just before (whatever
\* changed them since the simulation was started), and a connected client
\* sends exactly those spots.
C37_SimulationKeepsLaterChanges ==
    [][\A c \in Clients : \A result \in SimulationResults :
          SimulationDone(c, result) =>
             /\ \E t \in Clock :
                   spots'[c] = simulateTrafficScenario(spots[c], result, t)
             /\ Connected(c) => Published(c, [spots |-> spots'[c]])]_vars

(* -------------------------- roles specification ---------------------- *)
\* What the user of c can do with what App renders for the role logged in.
UserOperation(c) ==
    /\ LoggedIn(c)
    /\ \/ LocalMutation(c)
       \/ handleQuickSaveLayout(c)
       \/ handlerReturnsForGuest(c)
       \/ SimModalShown(c) /\ handleSimulation(c)
       \/ LayoutsShown(c) /\ \E snapshot \in Snapshots :
             handleLoadLayoutSnapshot(c, snapshot.spotLocations, snapshot.zones)

\* One browser runs App; its user logs out and in under either role and
\* does what the role's screen offers, while the relay, the transport, the
\* other tabs and a pending simulation go on as before.
NextRoles ==
    \/ \E p \in Peers : RelayConnection(p)
    \/ \E p \in Peers : RelayOnUpdate(p)
    \/ \E p \in Peers : RelayOnSyncInitial(p)
    \/ \E p \in Peers : RelayOnClose(p)
    \/ \E p \in Peers : NetDrop(p)
    \/ \E c \in Solo : ClientOnOpen(c)
    \/ \E c \in Solo : ClientOnInit(c)
    \/ \E c \in Solo : ClientOnUpdate(c)
    \/ \E c \in Solo : ClientOnClose(c)
    \/ \E c \in Solo : Reconnect(c)
    \/ \E c \in Solo : Logout(c)
    \/ \E c \in Solo : \E role \in {ADMIN, GUEST} : Login(c, role)
    \/ \E c \in Solo : UserOperation(c)
    \/ \E c \in Solo : \E result \in SimulationResults : SimulationDone(c, result)
    \/ \E c \in Solo : \E e \in StorageEvents : handleStorageChange(c, e)
    \/ \E m \in ForeignMessages : ForeignSend(m)

SpecRoles == InitSolo /\ [][NextRoles]_vars

\* What a store holds under a key, if anything.
Held(store, key) == IF key \in DOMAIN store THEN <<store[key]>> ELSE <<>>

\* C38: while the role of a client is GUEST, a step changes its spots,
\* locations, zones or image only by handling an INIT, an UPDATE or a storage
\* event, or by completing a simulation that was started before; it changes
\* what its store holds for the locations, the zones or the image only by
\* another tab's write; and it adds an UPDATE to what the client has sent
\* only by completing such a simulation. No operation of the guest's screen
\* does any of these.
C38_GuestReadOnly ==
    [][\A c \in Solo : userRole[c] = GUEST =>
          /\ Local(c)' # Local(c) =>
                \/ ClientOnInit(c) \/ ClientOnUpdate(c)
                \/ \E e \in StorageEvents : handleStorageChange(c, e)
                \/ \E result \in SimulationResults : SimulationDone(c, result)
          /\ (\E key \in {STORAGE_KEYS.LOCATIONS, STORAGE_KEYS.ZONES, STORAGE_KEYS.IMAGE} :
                 Held(storage'[c], key) # Held(storage[c], key)) =>
                \E e \in StorageEvents : handleStorageChange(c, e)
          /\ (Len(c2s'[c]) > Len(c2s[c]) /\ c2s'[c][Len(c2s'[c])].type = "UPDATE") =>
                \E result \in SimulationResults : SimulationDone(c, result)
          /\ UserOperation(c) =>
                /\ Local(c)' = Local(c) /\ storage'[c] = storage[c] /\ c2s' = c2s
                /\ simulation' = simulation]_vars

\* A connected guest has used a control of the guest screen: the one event
\* of the run is spent, and the client holds what it held at mount, has sent
\* nothing but its seed and has written nothing.
C38_Witness ==
    /\ userRole["c2"] = GUEST /\ ops = 1 /\ drops = 0
    /\ Connected("c2") /\ s2c["c2"] = <<>>
    /\ Local("c2") = closure["c2"]
    /\ simulation["c2"] = <<>>
    /\ c2s[Foreign] = <<>>
    /\ storage["c2"] = PersistSpots(StoredBefore["c2"], closure["c2"].spots)
    /\ \A i \in 1..Len(c2s["c2"]) : c2s["c2"][i].type = "SYNC_INITIAL"

(* ------------------------- toggle specification ---------------------- *)
\* The ids handleToggleSpot is called with: those of the spots, and one
\* that no spot has.
ToggleIds == SpotIds \cup {"C-00"}

\* Relay and clients are connected, c1 has toggled a spot once; the clients
\* toggle spots, by ids some of which match no spot, and every UPDATE is
\* handled.
NextToggle ==
    \/ \E c \in Clients : RelayOnUpdate(c)
    \/ \E c \in Clients : ClientOnUpdate(c)
    \/ \E c \in Clients : \E id \in ToggleIds : handleToggleSpot(c, id)

SpecToggle == InitPair /\ [][NextToggle]_vars

\* The statuses of a sequence of spots, in order.
Statuses(ss) == [i \in 1..Len(ss) |-> ss[i].status]

\* The positions at which two sequences of spots differ in status.
StatusDiffers(ss, tt) == {i \in 1..Len(ss) : ss[i].status # tt[i].status}

\* C39: handleToggleSpot(id) keeps the number, the order, the ids and the
\* types of the spots, flips the status of each spot whose id is id, leaves
\* every other spot as it was (so an id no spot has changes nothing), and a
\* connected client sends the whole new sequence; and when c1, whose first
\* toggle made its statuses differ from c2's at one spot, toggles that spot
\* again, its statuses are c2's again.
C39_ToggleFlipsExactlyOne ==
    [][\A c \in Clients : \A id \in ToggleIds :
          handleToggleSpot(c, id) =>
             /\ Len(spots'[c]) = Len(spots[c])
             /\ \A i \in 1..Len(spots[c]) :
                   /\ spots'[c][i].id = spots[c][i].id
                   /\ spots'[c][i].type = spots[c][i].type
                   /\ spots[c][i].id = id =>
                         /\ spots[c][i].status = FREE => spots'[c][i].status = OCCUPIED
                         /\ spots[c][i].status = OCCUPIED => spots'[c][i].status = FREE
                   /\ spots[c][i].id # id => spots'[c][i] = spots[c][i]
             /\ Connected(c) => Published(c, [spots |-> spots'[c]])
             /\ (/\ c = "c1" /\ ops = 0
                 /\ \E i \in 1..Len(spots[c]) :
                       /\ StatusDiffers(spots["c1"], spots["c2"]) = {i}
                       /\ spots[c][i].id = id) =>
                   Statuses(spots'["c1"]) = Statuses(spots["c2"])]_vars

\* c1 has toggled the same spot twice: the second UPDATE it sent carries the
\* statuses c2 still holds, which the first did not.
C39_Witness ==
    /\ ops = 1 /\ Len(c2s["c1"]) = 2
    /\ c2s["c2"] = <<>> /\ s2c["c2"] = <<>>
    /\ Statuses(c2s["c1"][2].payload.spots) = Statuses(spots["c2"])
    /\ Statuses(c2s["c1"][1].payload.spots) # Statuses(spots["c2"])
    /\ Statuses(spots["c1"]) = Statuses(spots["c2"])

\* c2 has toggled by an id no spot has: it holds the statuses it held and
\* has sent them all.
C39_WitnessNoMatch ==
    /\ ops = 1 /\ Len(c2s["c2"]) = 1
    /\ Statuses(c2s["c2"][1].payload.spots) = Statuses(spots["c2"])
    /\ Len(c2s["c1"]) = 1 /\ s2c["c2"] = <<>>
    /\ Statuses(spots["c2"]) # Statuses(spots["c1"])
    /\ Cardinality(StatusDiffers(spots["c1"], spots["c2"])) = 1

====
